---- MODULE Spec2Model ----
(***************************************************************************)
(* Model of the CMI level-script loader of mdk-parse.                      *)
(*                                                                         *)
(* The repository holds three iterations of the loader:                    *)
(*   - src/unnamed/part_000 : go() with the delay/tick loop (Spec)         *)
(*   - src/unnamed/part_001 : go() with a per-entity script Reader         *)
(*   - src/cmi_interp/cmi.ts: go() with the schema table (SpecSchema)      *)
(* The byte buffer is modelled byte for byte: offsets are 0-based as in    *)
(* the DataView, byte o of the buffer is mem[o + 1].                       *)
(***************************************************************************)
EXTENDS Integers, Sequences, FiniteSets, TLC

(***************************************************************************)
(* Reader (part_000 lines 12-86, identical in cmi.ts lines 11-85).         *)
(* Every read returns [ok, val, off]: ok = FALSE is the RangeError of the  *)
(* DataView or the Error of assert(); off is the offset after the read.    *)
(***************************************************************************)
ReadFail(o) == [ok |-> FALSE, val |-> 0, off |-> o]

ReadOk(v, o) == [ok |-> TRUE, val |-> v, off |-> o]

\* DataView.getUintN(o): a RangeError unless o .. o+n-1 lie in the buffer
InBuffer(m, o, n) == o >= 0 /\ o + n <= Len(m)

u8(m, o) ==
    IF InBuffer(m, o, 1) THEN ReadOk(m[o + 1], o + 1) ELSE ReadFail(o)

u16(m, o) ==
    IF InBuffer(m, o, 2) THEN ReadOk(m[o + 1] + 256 * m[o + 2], o + 2)
    ELSE ReadFail(o)

\* little-endian 32 bit unsigned; the model's buffers keep the top byte < 128
u32(m, o) ==
    IF InBuffer(m, o, 4)
    THEN ReadOk(m[o + 1] + 256 * m[o + 2] + 65536 * m[o + 3]
                + 16777216 * m[o + 4], o + 4)
    ELSE ReadFail(o)

\* little-endian 32 bit two's complement
i32(m, o) ==
    IF InBuffer(m, o, 4)
    THEN ReadOk(m[o + 1] + 256 * m[o + 2] + 65536 * m[o + 3]
                + 16777216 * (IF m[o + 4] >= 128 THEN m[o + 4] - 256
                              ELSE m[o + 4]), o + 4)
    ELSE ReadFail(o)

(***************************************************************************)
(* IEEE-754 single precision, decoded to quarter units (value * 4) where   *)
(* that is an integer of moderate size; NaN and the values the model does  *)
(* not represent exactly are kept apart from every number.                 *)
(***************************************************************************)
NaN == -1000001

Inexact == -1000002

RECURSIVE Pow2(_)
Pow2(n) == IF n <= 0 THEN 1 ELSE 2 * Pow2(n - 1)

F32Value(b0, b1, b2, b3) ==
    LET sign == IF b3 >= 128 THEN -1 ELSE 1
        e    == 2 * (b3 % 128) + (b2 \div 128)
        man  == (b2 % 128) * 65536 + b1 * 256 + b0
        sig  == 8388608 + man            \* 1.man * 2^23
        sh   == e - 127 - 23 + 2         \* value * 4 = sig * 2^sh
    IN  IF e = 255 THEN (IF man # 0 THEN NaN ELSE Inexact)
        ELSE IF e = 0 THEN (IF man = 0 THEN 0 ELSE Inexact)
        ELSE IF sh >= 0 THEN (IF sh <= 6 THEN sign * sig * Pow2(sh) ELSE Inexact)
        ELSE IF sh >= -23 /\ sig % Pow2(-sh) = 0 THEN sign * (sig \div Pow2(-sh))
        ELSE Inexact

f32(m, o) ==
    IF InBuffer(m, o, 4)
    THEN ReadOk(F32Value(m[o + 1], m[o + 2], m[o + 3], m[o + 4]), o + 4)
    ELSE ReadFail(o)

\* three floats; only ever logged, so the model keeps the 12 raw bytes
vec3(m, o) ==
    IF InBuffer(m, o + 8, 4) /\ InBuffer(m, o, 4)
    THEN ReadOk(SubSeq(m, o + 1, o + 12), o + 12)
    ELSE ReadFail(o)

\* str(n) without its asserts: the characters before the first NUL
RECURSIVE StrTake(_, _, _, _, _)
StrTake(m, o, n, i, acc) ==
    IF i >= n THEN ReadOk(acc, o + n)
    ELSE IF ~InBuffer(m, o + i, 1) THEN ReadFail(o)
    ELSE IF m[o + i + 1] = 0 THEN ReadOk(acc, o + n)
    ELSE StrTake(m, o, n, i + 1, Append(acc, m[o + i + 1]))

strUnchecked(m, o, n) == StrTake(m, o, n, 0, <<>>)

\* str(n): the characters before the first NUL; asserts that every byte after
\* the first NUL is NUL and that every character is printable ASCII
RECURSIVE StrScan(_, _, _, _, _)
StrScan(m, o, n, i, acc) ==
    IF i >= n THEN ReadOk(acc, o + n)
    ELSE IF ~InBuffer(m, o + i, 1) THEN ReadFail(o)
    ELSE LET c == m[o + i + 1]
         IN  IF c = 0
             THEN IF \A j \in (i + 1) .. (n - 1) :
                         InBuffer(m, o + j, 1) /\ m[o + j + 1] = 0
                  THEN ReadOk(acc, o + n)
                  ELSE ReadFail(o)
             ELSE IF c >= 32 /\ c < 127
                  THEN StrScan(m, o, n, i + 1, Append(acc, c))
                  ELSE ReadFail(o)

str(m, o, n) == StrScan(m, o, n, 0, <<>>)

\* a pstr whose length byte counts itself
pstrLengthInclusive(m, o) ==
    LET len == u8(m, o)
    IN  IF len.ok THEN str(m, len.off, len.val - 1) ELSE ReadFail(o)

pstr(m, o) ==
    LET len == u8(m, o)
    IN  IF len.ok THEN str(m, len.off, len.val) ELSE ReadFail(o)

(***************************************************************************)
(* JavaScript value helpers used by go() and the opcode handlers.          *)
(***************************************************************************)
RECURSIVE BitOr(_, _)
BitOr(a, b) ==
    IF a = 0 THEN b
    ELSE IF b = 0 THEN a
    ELSE (IF a % 2 = 1 \/ b % 2 = 1 THEN 1 ELSE 0)
         + 2 * BitOr(a \div 2, b \div 2)

RECURSIVE BitAnd(_, _)
BitAnd(a, b) ==
    IF a = 0 \/ b = 0 THEN 0
    ELSE (IF a % 2 = 1 /\ b % 2 = 1 THEN 1 ELSE 0)
         + 2 * BitAnd(a \div 2, b \div 2)

\* the decimal digits of a template literal ${id}
RECURSIVE Digits(_)
Digits(n) ==
    IF n < 0 THEN <<45>> \o Digits(-n)
    ELSE IF n < 10 THEN <<48 + n>>
    ELSE Digits(n \div 10) \o <<48 + (n % 10)>>

\* Map<string, number>: entries in insertion order; set() on a present key
\* replaces the value and keeps the position
MapHas(map, k) == \E i \in 1 .. Len(map) : map[i].k = k

MapGet(map, k) ==
    IF MapHas(map, k)
    THEN map[CHOOSE i \in 1 .. Len(map) : map[i].k = k].v
    ELSE 0   \* undefined: every caller tests truthiness or applies ?? 0

MapSet(map, k, v) ==
    IF MapHas(map, k)
    THEN [i \in 1 .. Len(map) |-> IF map[i].k = k THEN [k |-> k, v |-> v] ELSE map[i]]
    ELSE Append(map, [k |-> k, v |-> v])

\* name.split('$') destructured as [arenaName, entityName]
Dollar == 36

Undefined == <<-1>>

RECURSIVE UpTo(_, _)
UpTo(s, c) ==
    IF s = <<>> \/ Head(s) = c THEN <<>> ELSE <<Head(s)>> \o UpTo(Tail(s), c)

SplitKey(name) ==
    LET first == UpTo(name, Dollar)
        rest  == SubSeq(name, Len(first) + 2, Len(name))
    IN  [arenaName  |-> first,
         entityName |-> IF Len(first) = Len(name) THEN Undefined
                        ELSE UpTo(rest, Dollar)]

(***************************************************************************)
(* State.  Objects live in the heap ents (an object's identity is its      *)
(* index); the Arena-only fields of an Arena object are kept in arenas     *)
(* under the same index.                                                   *)
(***************************************************************************)
VARIABLES
    mem,        \* the bytes of the DataView handed to go()
    bsp,        \* the BspEntity[] handed to go()
    pc,         \* where go() stands: "start", "seed", "tick", "returned", "failed"
    level,      \* Level: [name, arenas (heap indices, in order), variables]
    initOffsets,\* go()'s initOffsets map
    ents,       \* heap of Entity objects
    arenas,     \* heap index of an Arena -> its Arena-only fields
    stack,      \* the running executeScript() calls, innermost last
    si,         \* index of the next BspEntity to seed
    tick,       \* i of the tick loop
    ai,         \* position of Level.forAllEntities in level.arenas
    ei,         \* position of Arena.forAllEntities in arena.entities
    passLen,    \* length of arena.entities when the current pass over it began
    passNo,     \* history: the number of passes over an arena begun so far
    hist,       \* history: per object of the heap, what its scripts did
    last,       \* history: the last thing that happened
    temp,       \* cmi.ts: the module's array temp, which outlives a call of go()
    prior       \* history: what the calls of go() made before this one gave

vars == <<mem, bsp, pc, level, initOffsets, ents, arenas, stack, si, tick, ai, ei,
          passLen, passNo, hist, last, temp, prior>>

\* for (let i = 0; i < 10; ++i)
Ticks == 10

\* the model stops spawning when the heap holds MaxEnts objects
MaxEnts == 6

ZeroVec == <<0, 0, 0, 0, 0, 0, 0, 0, 0, 0, 0, 0>>

NoVars == <<0, 0, 0, 0>>

\* one line of Entity.log
LogLine(at, op, msg, args) == [at |-> at, op |-> op, msg |-> msg, args |-> args]

\* constructor of Entity (and of PickupEntity, which adds nothing)
Entity(kind, name, id, parent, position, yawAngle) ==
    [kind |-> kind, name |-> name, id |-> id, position |-> position,
     yawAngle |-> yawAngle, health |-> 10, flags |-> 0,
     minOrderRange |-> 0, maxOrderRange |-> 0, variables |-> NoVars,
     arena |-> parent, scriptOffset |-> 0, scriptDelay |-> 0,
     scriptOffsetAfterDelay |-> 0,
     log |-> <<LogLine(-1, -1, "Name", <<name, <<id>>, position, <<yawAngle>>>>)>>,
     targetArena |-> 0, doorFlags |-> 0, openDistance |-> 0]

DoorClosed == 8

DoorOpenDistance == 80   \* openDistance = 20, in quarter units

\* constructor of DoorEntity
DoorEntity(name, id, parent, position, angle, targetArena, targetName) ==
    LET e == Entity("Door", name, id, parent, position, angle)
    IN  [e EXCEPT !.log = <<[e.log[1] EXCEPT !.args = @ \o <<targetName>>]>>,
                  !.targetArena = targetArena,
                  !.doorFlags = DoorClosed,
                  !.openDistance = DoorOpenDistance]

\* constructor of Arena: the Entity part and the Arena part
ArenaEntity(name, id, self, scriptOffset) ==
    [Entity("Arena", name, id, self, ZeroVec, 0) EXCEPT !.scriptOffset = scriptOffset]

ArenaFields(scriptOffset) ==
    [data |-> scriptOffset, setupOffsets |-> <<>>, entities |-> <<>>,
     arenaVariables |-> NoVars]

\* findArena falling back on the first arena
findArenaOrFirst(lv, heap, name) ==
    IF \E i \in 1 .. Len(lv.arenas) : heap[lv.arenas[i]].name = name
    THEN lv.arenas[CHOOSE i \in 1 .. Len(lv.arenas) : heap[lv.arenas[i]].name = name]
    ELSE IF lv.arenas = <<>> THEN 0 ELSE lv.arenas[1]

\* findArena returning the last arena of the level
findArenaLast(lv, heap, name) ==
    IF \E i \in 1 .. Len(lv.arenas) : heap[lv.arenas[i]].name = name
    THEN lv.arenas[Len(lv.arenas)]
    ELSE 0

\* Level.findArena: the first arena of that name, 0 for "arena not found"
findArena(lv, heap, name) ==
    IF \E i \in 1 .. Len(lv.arenas) : heap[lv.arenas[i]].name = name
    THEN lv.arenas[CHOOSE i \in 1 .. Len(lv.arenas) :
                      /\ heap[lv.arenas[i]].name = name
                      /\ \A j \in 1 .. (i - 1) : heap[lv.arenas[j]].name # name]
    ELSE 0

\* readOffsets: count, then count times (pstr name, u32 offset)
RECURSIVE ReadEntries(_, _, _, _)
ReadEntries(m, o, count, map) ==
    IF count = 0 THEN ReadOk(map, o)
    ELSE LET name == pstr(m, o)
             offset == u32(m, name.off)
         IN  IF ~name.ok \/ ~offset.ok THEN ReadFail(o)
             ELSE ReadEntries(m, offset.off, count - 1,
                              MapSet(map, name.val, offset.val))

readOffsets(m, o) ==
    LET count == u32(m, o)
    IN  IF count.ok THEN ReadEntries(m, count.off, count.val, <<>>) ELSE ReadFail(o)

\* arenaOffsets.forEach: one Arena per entry, in insertion order
RECURSIVE ReadArenas(_, _, _, _)
ReadArenas(m, tbl, i, acc) ==
    IF i > Len(tbl) THEN ReadOk(acc, 0)
    ELSE LET s1 == pstr(m, tbl[i].v)
             s2 == pstr(m, s1.off)
             scriptOffset == u32(m, s2.off)
         IN  IF ~s1.ok \/ ~s2.ok \/ ~scriptOffset.ok THEN ReadFail(0)
             ELSE ReadArenas(m, tbl, i + 1,
                     Append(acc, [name |-> tbl[i].k, scriptOffset |-> scriptOffset.val]))

\* setupOffsets.forEach: arena.setupOffsets.set(entityName, offset)
RECURSIVE ApplySetups(_, _, _, _, _)
ApplySetups(lv, heap, tbl, i, ar) ==
    IF i > Len(tbl) THEN ReadOk(ar, 0)
    ELSE LET key == SplitKey(tbl[i].k)
             a == findArena(lv, heap, key.arenaName)
         IN  IF a = 0 THEN ReadFail(0)
             ELSE ApplySetups(lv, heap, tbl, i + 1,
                     [ar EXCEPT ![a].setupOffsets = MapSet(@, key.entityName, tbl[i].v)])

\* go() up to the seeding loop (part_000 lines 212-248)
Header(m) ==
    LET levelName == str(m, 0, 12)
        inits  == readOffsets(m, levelName.off + 4)
        meshes == readOffsets(m, inits.off)
        setups == readOffsets(m, meshes.off)
        arenaT == readOffsets(m, setups.off)
        recs   == ReadArenas(m, arenaT.val, 1, <<>>)
    IN  IF ~levelName.ok THEN [ok |-> FALSE]
        ELSE IF ~inits.ok THEN [ok |-> FALSE]
        ELSE IF ~meshes.ok THEN [ok |-> FALSE]
        ELSE IF ~setups.ok THEN [ok |-> FALSE]
        ELSE IF ~arenaT.ok THEN [ok |-> FALSE]
        ELSE IF ~recs.ok THEN [ok |-> FALSE]
        ELSE LET n == Len(recs.val)
                 heap == [i \in 1 .. n |->
                            ArenaEntity(recs.val[i].name, i - 1, i, recs.val[i].scriptOffset)]
                 lv == [name |-> levelName.val, arenas |-> [i \in 1 .. n |-> i],
                        variables |-> NoVars]
                 ar0 == [i \in 1 .. n |-> ArenaFields(recs.val[i].scriptOffset)]
                 ar == ApplySetups(lv, heap, setups.val, 1, ar0)
             IN  IF ~ar.ok THEN [ok |-> FALSE]
                 ELSE [ok |-> TRUE, level |-> lv, ents |-> heap, arenas |-> ar.val,
                       initOffsets |-> inits.val]

(***************************************************************************)
(* executeScript and executeOpcode (part_000 lines 120-140, 293-469).      *)
(* A frame of stack is one running executeScript(): the entity, the offset *)
(* the call started from (its local offset), the offset of its script      *)
(* Reader, and, when spawnEntity() made the call, the runtime script       *)
(* offset spawnEntity() assigns once the call returns.                     *)
(***************************************************************************)
Frame(ent, off, setup, runtime) ==
    [ent |-> ent, start |-> off, off |-> off, setup |-> setup, runtime |-> runtime]

Top == stack[Len(stack)]

Cur == ents[Top.ent]

Running == pc \in {"seed", "tick"} /\ stack # <<>>

Opcode == u8(mem, Top.off)

Decodes(op) == Running /\ Opcode.ok /\ Opcode.val = op

\* executeScript restarting at scriptOffset when the delay has run out
ScriptEntryRestart(e) ==
    IF e.scriptOffsetAfterDelay # 0
    THEN IF e.scriptDelay # NaN /\ e.scriptDelay > 0
         THEN [run |-> FALSE, off |-> 0, ent |-> e]
         ELSE [run |-> e.scriptOffset # 0, off |-> e.scriptOffset,
               ent |-> [e EXCEPT !.scriptOffsetAfterDelay = 0]]
    ELSE [run |-> e.scriptOffset # 0, off |-> e.scriptOffset, ent |-> e]

\* executeScript resuming at the pending offset whatever the delay
ScriptEntryNoWait(e) ==
    IF e.scriptOffsetAfterDelay # 0
    THEN [run |-> TRUE, off |-> e.scriptOffsetAfterDelay,
          ent |-> [e EXCEPT !.scriptOffsetAfterDelay = 0]]
    ELSE [run |-> e.scriptOffset # 0, off |-> e.scriptOffset, ent |-> e]

\* the head of executeScript: which offset to run from, if any
ScriptEntry(e) ==
    IF e.scriptOffsetAfterDelay # 0
    THEN IF e.scriptDelay # NaN /\ e.scriptDelay > 0
         THEN [run |-> FALSE, off |-> 0, ent |-> e]
         ELSE [run |-> TRUE, off |-> e.scriptOffsetAfterDelay,
               ent |-> [e EXCEPT !.scriptOffsetAfterDelay = 0]]
    ELSE [run |-> e.scriptOffset # 0, off |-> e.scriptOffset, ent |-> e]

\* Math.max(0, scriptDelay - 0.5), in quarter units
TickDelay(d) ==
    IF d = NaN THEN NaN ELSE IF d - 2 > 0 THEN d - 2 ELSE 0

\* the operands of one opcode, read in order
RECURSIVE ReadAll(_, _, _, _)
ReadAll(m, o, types, acc) ==
    IF types = <<>> THEN ReadOk(acc, o)
    ELSE LET t == Head(types)
             r == CASE t = "u8" -> u8(m, o)
                    [] t = "u16" -> u16(m, o)
                    [] t = "u32" -> u32(m, o)
                    [] t = "i32" -> i32(m, o)
                    [] t = "f32" -> f32(m, o)
                    [] t = "vec3" -> vec3(m, o)
                    [] t = "pstr" -> pstr(m, o)
         IN  IF r.ok THEN ReadAll(m, r.off, Tail(types), Append(acc, r.val))
             ELSE ReadFail(o)

Operands(types) == ReadAll(mem, Opcode.off, types, <<>>)

\* getVar
VarLevel == 0

VarArena == 1

VarEntity == 2

VarValue == 3

\* getVar with a default of 0 for the variable types it has no case for
getVarDefault(e, m, o) ==
    LET varType == u8(m, o)
        value == f32(m, varType.off)
        index == u8(m, varType.off)
    IN  IF ~varType.ok THEN ReadFail(o)
        ELSE IF varType.val = VarValue THEN value
        ELSE IF ~index.ok THEN ReadFail(o)
        ELSE IF ~(index.val >= 0 /\ index.val <= 3) THEN ReadFail(o)
        ELSE IF varType.val = VarLevel
             THEN ReadOk(level.variables[index.val + 1], index.off)
        ELSE IF varType.val = VarArena
             THEN ReadOk(arenas[e.arena].arenaVariables[index.val + 1], index.off)
        ELSE IF varType.val = VarEntity
             THEN ReadOk(e.variables[index.val + 1], index.off)
        ELSE ReadOk(0, index.off)

getVar(e, m, o) ==
    LET varType == u8(m, o)
        value == f32(m, varType.off)
        index == u8(m, varType.off)
    IN  IF ~varType.ok THEN ReadFail(o)
        ELSE IF varType.val = VarValue THEN value
        ELSE IF ~index.ok THEN ReadFail(o)
        ELSE IF ~(index.val >= 0 /\ index.val <= 3) THEN ReadFail(o)
        ELSE IF varType.val = VarLevel
             THEN ReadOk(level.variables[index.val + 1], index.off)
        ELSE IF varType.val = VarArena
             THEN ReadOk(arenas[e.arena].arenaVariables[index.val + 1], index.off)
        ELSE IF varType.val = VarEntity
             THEN ReadOk(e.variables[index.val + 1], index.off)
        ELSE ReadFail(o)

\* a closure log() that pushes nothing
LogNothing(e, msg, args) == e

\* the closure log() of executeOpcode
Log(e, msg, args) ==
    [e EXCEPT !.log = Append(@, LogLine(Top.off, Opcode.val, msg, args))]

Event(act, off2) ==
    [act |-> act, ent |-> Top.ent, at |-> Top.off, op |-> Opcode.val, end |-> off2,
     depth |-> Len(stack)]

\* history of one object: the pass in which it was created; the offset of the
\* delay opcode it executed last and the offset that call of executeScript
\* started from, if it has decoded nothing since (-1: none); the pass in which
\* opcode 0x10 set its health to 0 (-1: never); for an object a script spawned,
\* the entity the outermost executeScript was running for, the offset that
\* call started from and the pass it was made in
NoOrigin == [ent |-> 0, start |-> 0, pass |-> 0]

NoHist ==
    [born |-> passNo, delayAt |-> -1, delayFrom |-> -1, destroyedPass |-> -1,
     origin |-> NoOrigin]

Decoded(h) == [h EXCEPT ![Top.ent].delayAt = -1, ![Top.ent].delayFrom = -1]

\* executeOpcode returned true: the while loop of executeScript goes on
Continue(e2, off2) ==
    /\ ents' = [ents EXCEPT ![Top.ent] = e2]
    /\ stack' = [stack EXCEPT ![Len(stack)].off = off2]
    /\ last' = Event("continue", off2)
    /\ hist' = Decoded(hist)
    /\ UNCHANGED <<mem, bsp, temp, prior, pc, level, initOffsets, arenas, si, tick, ai,
                   ei, passLen, passNo>>

\* a spawnEntity that leaves the cursor where the setup script put it
AfterSetupKeepsCursor(e, frame) ==
    IF frame.setup
    THEN [e EXCEPT !.log = Append(@, LogLine(-1, -1, "Setup complete", <<>>))]
    ELSE e

\* what spawnEntity does after entity.executeScript() returned
AfterSetup(e, frame) ==
    IF frame.setup
    THEN [e EXCEPT !.log = Append(@, LogLine(-1, -1, "Setup complete", <<>>)),
                   !.scriptOffset = frame.runtime]
    ELSE e

\* executeOpcode returned false: executeScript returns to its caller
Return(e2, off2) ==
    /\ ents' = [ents EXCEPT ![Top.ent] = AfterSetup(e2, Top)]
    /\ stack' = SubSeq(stack, 1, Len(stack) - 1)
    /\ last' = Event("return", off2)
    /\ hist' = [hist EXCEPT ![Top.ent] =
                  [@ EXCEPT !.delayAt = IF Opcode.val = 64 THEN Top.off ELSE -1,
                            !.delayFrom = IF Opcode.val = 64 THEN Top.start ELSE -1,
                            !.destroyedPass = IF Opcode.val = 16 THEN passNo ELSE @]]
    /\ UNCHANGED <<mem, bsp, temp, prior, pc, level, initOffsets, arenas, si, tick, ai,
                   ei, passLen, passNo>>

\* an Error or RangeError: nothing in go() catches it
Throw ==
    /\ pc' = "failed"
    /\ last' = [act |-> "throw", ent |-> IF stack = <<>> THEN 0 ELSE Top.ent,
                at |-> IF stack = <<>> THEN 0 ELSE Top.off,
                op |-> IF stack # <<>> /\ Opcode.ok THEN Opcode.val ELSE -1,
                end |-> 0, depth |-> Len(stack)]
    /\ UNCHANGED <<mem, bsp, temp, prior, level, initOffsets, ents, arenas, stack, si,
                   tick, ai, ei, passLen, passNo, hist>>

\* spawnEntity pushing the entity on the first arena's list
spawnEntityFirstArena(h, fr, a, entity, scriptOffset) ==
    LET n == Len(h) + 1
        setupOffset == MapGet(arenas[a].setupOffsets, entity.name)
        inSetup == [entity EXCEPT !.scriptOffset = setupOffset,
                                  !.log = Append(@, LogLine(-1, -1, "Running setup", <<>>))]
    IN  [arenas |-> [arenas EXCEPT ![level.arenas[1]].entities = Append(@, n)],
         ents   |-> IF setupOffset # 0 THEN Append(h, inSetup)
                    ELSE Append(h, [entity EXCEPT !.scriptOffset = scriptOffset]),
         stack  |-> IF setupOffset # 0
                    THEN Append(fr, Frame(n, setupOffset, TRUE, scriptOffset))
                    ELSE fr]

\* Arena.spawnEntity(entity, scriptOffset) on the heap h, called with the
\* frames fr running: the new heap, arena fields and frames
\* spawnEntity putting the entity at the head of arena.entities
spawnEntityUnshift(h, fr, a, entity, scriptOffset) ==
    LET n == Len(h) + 1
        setupOffset == MapGet(arenas[a].setupOffsets, entity.name)
        inSetup == [entity EXCEPT !.scriptOffset = setupOffset,
                                  !.log = Append(@, LogLine(-1, -1, "Running setup", <<>>))]
    IN  [arenas |-> [arenas EXCEPT ![a].entities = <<n>> \o @],
         ents   |-> IF setupOffset # 0 THEN Append(h, inSetup)
                    ELSE Append(h, [entity EXCEPT !.scriptOffset = scriptOffset]),
         stack  |-> IF setupOffset # 0
                    THEN Append(fr, Frame(n, setupOffset, TRUE, scriptOffset))
                    ELSE fr]

spawnEntity(h, fr, a, entity, scriptOffset) ==
    LET n == Len(h) + 1
        setupOffset == MapGet(arenas[a].setupOffsets, entity.name)
        inSetup == [entity EXCEPT !.scriptOffset = setupOffset,
                                  !.log = Append(@, LogLine(-1, -1, "Running setup", <<>>))]
    IN  [arenas |-> [arenas EXCEPT ![a].entities = Append(@, n)],
         ents   |-> IF setupOffset # 0 THEN Append(h, inSetup)
                    ELSE Append(h, [entity EXCEPT !.scriptOffset = scriptOffset]),
         stack  |-> IF setupOffset # 0
                    THEN Append(fr, Frame(n, setupOffset, TRUE, scriptOffset))
                    ELSE fr]

\* a spawn opcode: the handler's log line, then arena.spawnEntity, then break
Spawn(e2, off2, entity, scriptOffset) ==
    LET r == spawnEntity([ents EXCEPT ![Top.ent] = e2],
                         [stack EXCEPT ![Len(stack)].off = off2],
                         Cur.arena, entity, scriptOffset)
    IN  /\ Len(ents) < MaxEnts
        /\ ents' = r.ents
        /\ arenas' = r.arenas
        /\ stack' = r.stack
        /\ last' = Event("spawn", off2)
        /\ hist' = Append(Decoded(hist),
                           [NoHist EXCEPT !.origin = [ent |-> stack[1].ent,
                                                      start |-> stack[1].start,
                                                      pass |-> passNo]])
        /\ UNCHANGED <<mem, bsp, temp, prior, pc, level, initOffsets, si, tick, ai, ei,
                       passLen, passNo>>

(***************************************************************************)
(* The opcode handlers of executeOpcode, one action per case.              *)
(***************************************************************************)
\* case 0x01: set script resume point
Op01 ==
    /\ Decodes(1)
    /\ Continue([Log(Cur, "set resume point", <<>>) EXCEPT !.scriptOffset = Top.off + 1],
                Opcode.off)

\* case 0x0B storing its operand in slot 0 of the entity's variables as well
Op0BWritesVariable ==
    /\ Decodes(11)
    /\ LET r == Operands(<<"u8">>)
       IN  IF ~r.ok THEN Throw
           ELSE Continue([Log(Cur, "set min order range", <<<<r.val[1]>>>>)
                             EXCEPT !.minOrderRange = r.val[1],
                                    !.variables[1] = r.val[1]], r.off)

\* case 0x0B: set min order range
Op0B ==
    /\ Decodes(11)
    /\ LET r == Operands(<<"u8">>)
       IN  IF ~r.ok THEN Throw
           ELSE Continue([Log(Cur, "set min order range", <<<<r.val[1]>>>>)
                             EXCEPT !.minOrderRange = r.val[1]], r.off)

\* case 0x09: clear script
Op09 ==
    /\ Decodes(9)
    /\ Return([Log(Cur, "end script", <<>>) EXCEPT !.scriptOffset = 0], Opcode.off)

\* case 0x10: set health
Op10 ==
    /\ Decodes(16)
    /\ LET r == Operands(<<"u16">>)
       IN  IF ~r.ok THEN Throw
           ELSE IF r.val[1] = 0
           THEN Return([Log(Cur, "destroyed", <<>>) EXCEPT !.health = 0], r.off)
           ELSE Continue([Log(Cur, "set health", <<<<r.val[1]>>>>)
                             EXCEPT !.health = r.val[1]], r.off)

\* case 0x3B without script.offset = currentOffset: the Reader stays where the
\* read of the animation block left it
Op3BNoRestore ==
    /\ Decodes(59)
    /\ LET animOffset == Operands(<<"u32">>)
           num == u32(mem, animOffset.val[1])
           name == str(mem, num.off, 8)
       IN  IF ~animOffset.ok THEN Throw
           ELSE IF ~num.ok THEN Throw
           ELSE IF num.val = 0
           THEN IF ~name.ok THEN Throw
                ELSE Continue(Log(Cur, "set animation", <<name.val>>), name.off)
           ELSE Continue(Log(Cur, "set animation", <<<<animOffset.val[1]>>>>), num.off)

\* case 0x3B: set animation
Op3B ==
    /\ Decodes(59)
    /\ LET animOffset == Operands(<<"u32">>)
           currentOffset == animOffset.off
           num == u32(mem, animOffset.val[1])
           name == str(mem, num.off, 8)
       IN  IF ~animOffset.ok THEN Throw
           ELSE IF ~num.ok THEN Throw
           ELSE IF num.val = 0
           THEN IF ~name.ok THEN Throw
                ELSE Continue(Log(Cur, "set animation", <<name.val>>), currentOffset)
           ELSE Continue(Log(Cur, "set animation", <<<<animOffset.val[1]>>>>),
                         currentOffset)

\* case 0x40: delay
Op40 ==
    /\ Decodes(64)
    /\ LET delay == getVar(Cur, mem, Opcode.off)
       IN  IF ~delay.ok THEN Throw
           ELSE Return([Log(Cur, "delay", <<<<delay.val>>>>)
                           EXCEPT !.scriptDelay = delay.val,
                                  !.scriptOffsetAfterDelay = delay.off], delay.off)

\* case 0x49: set max order range
Op49 ==
    /\ Decodes(73)
    /\ LET r == Operands(<<"u8">>)
       IN  IF ~r.ok THEN Throw
           ELSE Continue([Log(Cur, "set max order range", <<<<r.val[1]>>>>)
                             EXCEPT !.maxOrderRange = r.val[1]], r.off)

\* case 0x74: set flags
Op74 ==
    /\ Decodes(116)
    /\ LET r == Operands(<<"u32">>)
       IN  IF ~r.ok THEN Throw
           ELSE Continue([Log(Cur, "set flags", <<<<r.val[1]>>>>)
                             EXCEPT !.flags = BitOr(@, r.val[1])], r.off)

\* case 0x95: spawn door
Op95 ==
    /\ Decodes(149)
    /\ LET r == Operands(<<"vec3", "f32", "i32", "pstr", "pstr", "u32">>)
           targetArena == findArena(level, ents, r.val[5])
       IN  IF ~r.ok THEN Throw
           ELSE IF targetArena = 0 THEN Throw
           ELSE Spawn(Log(Cur, "spawn door",
                          <<r.val[1], <<r.val[2]>>, <<r.val[3]>>, r.val[4], r.val[5],
                            <<r.val[6]>>>>),
                      r.off,
                      DoorEntity(r.val[4], r.val[3], Cur.arena, r.val[1], r.val[2],
                                 targetArena, ents[targetArena].name),
                      r.val[6])

\* case 0x96: set door animations
Op96 ==
    /\ Decodes(150)
    /\ LET r == Operands(<<"u32", "u32">>)
       IN  IF Cur.kind # "Door" THEN Throw
           ELSE IF ~r.ok THEN Throw
           ELSE Continue(Log(Cur, "set door animations", <<>>), r.off)

\* case 0x97: set door sounds
Op97 ==
    /\ Decodes(151)
    /\ LET r == Operands(<<"pstr", "pstr", "pstr", "pstr">>)
       IN  IF Cur.kind # "Door" THEN Throw
           ELSE IF ~r.ok THEN Throw
           ELSE Continue(Log(Cur, "set door sounds", r.val), r.off)

\* DoorFlags[flags]: the name of an enum member, else undefined
DoorFlagName(flags) ==
    IF flags \in {1, 2, 4, 8, 16, 32, 64, 128, 256} THEN <<flags>> ELSE Undefined

\* case 0x98 without its assert(entity instanceof DoorEntity)
Op98AnyEntity ==
    /\ Decodes(152)
    /\ LET r == Operands(<<"u32">>)
       IN  IF ~r.ok THEN Throw
           ELSE Continue([Log(Cur, "set door flags", <<<<r.val[1]>>, DoorFlagName(r.val[1])>>)
                             EXCEPT !.doorFlags = BitOr(BitAnd(@, 15), r.val[1])], r.off)

\* case 0x98: set door flags
Op98 ==
    /\ Decodes(152)
    /\ LET r == Operands(<<"u32">>)
       IN  IF Cur.kind # "Door" THEN Throw
           ELSE IF ~r.ok THEN Throw
           ELSE Continue([Log(Cur, "set door flags", <<<<r.val[1]>>, DoorFlagName(r.val[1])>>)
                             EXCEPT !.doorFlags = BitOr(BitAnd(@, 15), r.val[1])], r.off)

\* case 0x99: set door open distance
Op99 ==
    /\ Decodes(153)
    /\ LET r == Operands(<<"f32">>)
       IN  IF Cur.kind # "Door" THEN Throw
           ELSE IF ~r.ok THEN Throw
           ELSE Continue([Log(Cur, "set door open distance", <<<<r.val[1]>>>>)
                             EXCEPT !.openDistance = r.val[1]], r.off)

\* case 0xA1: spawn pickup
OpA1 ==
    /\ Decodes(161)
    /\ LET r == Operands(<<"vec3", "pstr", "u32">>)
       IN  IF ~r.ok THEN Throw
           ELSE Spawn(Log(Cur, "spawn pickup", <<r.val[2], r.val[1]>>), r.off,
                      Entity("Pickup", r.val[2], 0, Cur.arena, r.val[1], 0),
                      r.val[3])

\* case 0xE6: spawn entity
OpE6 ==
    /\ Decodes(230)
    /\ LET r == Operands(<<"vec3", "f32", "i32", "pstr", "u32">>)
       IN  IF ~r.ok THEN Throw
           ELSE Spawn(Log(Cur, "spawn entity", <<r.val[4]>>), r.off,
                      Entity("Entity", r.val[4], r.val[3], Cur.arena, r.val[1], r.val[2]),
                      r.val[5])

\* case 0xFF: end
OpFF ==
    /\ Decodes(255)
    /\ Return(Log(Cur, "finished script", <<>>), Opcode.off)

Handled == {1, 9, 11, 16, 59, 64, 73, 116, 149, 150, 151, 152, 153, 161, 230, 255}

\* default: unknown opcode
OpDefault ==
    /\ Running /\ Opcode.ok /\ Opcode.val \notin Handled
    /\ Return([Log(Cur, "unknown opcode!", <<>>) EXCEPT !.scriptOffset = 0], Opcode.off)

\* script.u8() for the opcode itself runs off the buffer
OpFault ==
    /\ Running /\ ~Opcode.ok
    /\ Throw

(***************************************************************************)
(* go() (part_000 lines 211-266).                                          *)
(***************************************************************************)
NoEvent(act) == [act |-> act, ent |-> 0, at |-> 0, op |-> -1, end |-> 0, depth |-> 0]

\* lines 212-248: the header, the arenas, the setup templates
Load ==
    /\ pc = "start"
    /\ LET h == Header(mem)
       IN  IF ~h.ok
           THEN /\ pc' = "failed"
                /\ last' = NoEvent("throw")
                /\ UNCHANGED <<level, initOffsets, ents, arenas, hist>>
           ELSE /\ pc' = "seed"
                /\ level' = h.level
                /\ initOffsets' = h.initOffsets
                /\ ents' = h.ents
                /\ arenas' = h.arenas
                /\ hist' = [i \in 1 .. Len(h.ents) |-> NoHist]
                /\ last' = NoEvent("load")
    /\ UNCHANGED <<mem, bsp, temp, prior, stack, si, tick, ai, ei, passLen, passNo>>

Underscore == 95

\* `${entityDef.arenaName}$${entityDef.name}_${entityDef.id}`
InitKey(entityDef) ==
    entityDef.arenaName \o <<Dollar>> \o entityDef.name \o <<Underscore>>
        \o Digits(entityDef.id)

\* lines 250-256: one round of the seeding loop
Seed ==
    /\ pc = "seed" /\ stack = <<>> /\ si <= Len(bsp)
    /\ LET entityDef == bsp[si]
           arena == findArena(level, ents, entityDef.arenaName)
           initOffset == MapGet(initOffsets, InitKey(entityDef))
           entity == Entity("Entity", entityDef.name, entityDef.id, arena,
                            entityDef.position, 0)
           r == spawnEntity(ents, stack, arena, entity, initOffset)
       IN  IF arena = 0
           THEN /\ pc' = "failed"
                /\ last' = NoEvent("throw")
                /\ UNCHANGED <<ents, arenas, stack, si, hist>>
           ELSE /\ Len(ents) < MaxEnts
                /\ hist' = Append(hist, NoHist)
                /\ ents' = r.ents
                /\ arenas' = r.arenas
                /\ stack' = r.stack
                /\ si' = si + 1
                /\ last' = [NoEvent("seed") EXCEPT !.ent = Len(ents) + 1]
                /\ pc' = pc
    /\ UNCHANGED <<mem, bsp, temp, prior, level, initOffsets, tick, ai, ei, passLen,
                   passNo>>

\* the seeding loop is over, the tick loop begins
SeedDone ==
    /\ pc = "seed" /\ stack = <<>> /\ si > Len(bsp)
    /\ pc' = "tick"
    /\ last' = NoEvent("seeded")
    /\ UNCHANGED <<mem, bsp, temp, prior, level, initOffsets, ents, arenas, stack, si,
                   tick, ai, ei, passLen, passNo, hist>>

\* lines 258-263 with Level.forAllEntities and Arena.forAllEntities: the
\* callback on the next entity of the iteration.  for..of reads the array's
\* length afresh at every step
Visit ==
    /\ pc = "tick" /\ stack = <<>> /\ tick < Ticks /\ level.arenas # <<>>
    /\ LET a == level.arenas[ai]
           inList == ei <= Len(arenas[a].entities)
           target == IF inList THEN arenas[a].entities[ei] ELSE a
           ticked == [ents[target] EXCEPT !.scriptDelay = TickDelay(@)]
           entry == ScriptEntry(ticked)
       IN  /\ ents' = [ents EXCEPT ![target] = entry.ent]
           /\ stack' = IF entry.run THEN <<Frame(target, entry.off, FALSE, 0)>> ELSE <<>>
           /\ passLen' = IF ei = 1 THEN Len(arenas[a].entities) ELSE passLen
           /\ passNo' = IF ei = 1 THEN passNo + 1 ELSE passNo
           /\ IF inList THEN /\ ei' = ei + 1
                             /\ UNCHANGED <<ai, tick>>
              ELSE /\ ei' = 1
                   /\ ai' = IF ai = Len(level.arenas) THEN 1 ELSE ai + 1
                   /\ tick' = IF ai = Len(level.arenas) THEN tick + 1 ELSE tick
           /\ last' = [act |-> IF entry.run THEN "visit" ELSE "idle", ent |-> target,
                       at |-> entry.off, op |-> -1, end |-> ei, depth |-> 0]
    /\ UNCHANGED <<mem, bsp, temp, prior, pc, level, initOffsets, arenas, si, hist>>

\* line 265: return level
Finish ==
    /\ pc = "tick" /\ stack = <<>> /\ (tick = Ticks \/ level.arenas = <<>>)
    /\ pc' = "returned"
    /\ last' = NoEvent("return level")
    /\ UNCHANGED <<mem, bsp, temp, prior, level, initOffsets, ents, arenas, stack, si,
                   tick, ai, ei, passLen, passNo, hist>>

(***************************************************************************)
(* The inputs: CMI files laid out as go() reads them (12 byte level name,  *)
(* file size, the init, mesh, setup and arena tables, one record per       *)
(* arena, then the scripts).  A file is described by its tables and its    *)
(* script segments; an instruction is its bytes up to a trailing 4 byte    *)
(* offset operand, which names a segment (0: offset 0, -1: no operand).    *)
(***************************************************************************)
U32Bytes(n) ==
    <<n % 256, (n \div 256) % 256, (n \div 65536) % 256, (n \div 16777216) % 256>>

PStrBytes(name) == <<Len(name)>> \o name

RECURSIVE Concat(_)
Concat(ss) == IF ss = <<>> THEN <<>> ELSE Head(ss) \o Concat(Tail(ss))

RECURSIVE SumLen(_)
SumLen(ss) == IF ss = <<>> THEN 0 ELSE Len(Head(ss)) + SumLen(Tail(ss))

Ins(pre, seg) == [pre |-> pre, seg |-> seg]

InsSize(i) == Len(i.pre) + (IF i.seg >= 0 THEN 4 ELSE 0)

RECURSIVE SegSize(_)
SegSize(sg) == IF sg = <<>> THEN 0 ELSE InsSize(Head(sg)) + SegSize(Tail(sg))

TableSize(tbl) == 4 + SumLen([i \in 1 .. Len(tbl) |-> tbl[i].key]) + 5 * Len(tbl)

LevelNameLen == 12

FileSizeLen == 4

ArenaRecLen == 6   \* two empty pstr and the u32 script offset

ArenaRecBase(img) ==
    LevelNameLen + FileSizeLen + TableSize(img.inits) + TableSize(<<>>)
        + TableSize(img.setups) + TableSize(img.arenas)

SegBase(img) == ArenaRecBase(img) + ArenaRecLen * Len(img.arenas)

RECURSIVE SegOffset(_, _)
SegOffset(img, k) ==
    IF k = 0 THEN 0
    ELSE IF k = 1 THEN SegBase(img)
    ELSE SegOffset(img, k - 1) + SegSize(img.segs[k - 1])

InsBytes(img, i) ==
    i.pre \o (IF i.seg >= 0 THEN U32Bytes(SegOffset(img, i.seg)) ELSE <<>>)

SegBytes(img, sg) == Concat([j \in 1 .. Len(sg) |-> InsBytes(img, sg[j])])

TableBytes(img, tbl) ==
    U32Bytes(Len(tbl))
        \o Concat([i \in 1 .. Len(tbl) |->
                     PStrBytes(tbl[i].key) \o U32Bytes(SegOffset(img, tbl[i].seg))])

ArenaTableBytes(img) ==
    U32Bytes(Len(img.arenas))
        \o Concat([i \in 1 .. Len(img.arenas) |->
                     PStrBytes(img.arenas[i].key)
                         \o U32Bytes(ArenaRecBase(img) + ArenaRecLen * (i - 1))])

ArenaRecBytes(img) ==
    Concat([i \in 1 .. Len(img.arenas) |->
              PStrBytes(<<>>) \o PStrBytes(<<>>)
                  \o U32Bytes(SegOffset(img, img.arenas[i].seg))])

FileBytes(img) ==
    LET size == SegOffset(img, Len(img.segs) + 1)
    IN  img.levelName \o U32Bytes(size)
            \o TableBytes(img, img.inits) \o TableBytes(img, <<>>)
            \o TableBytes(img, img.setups) \o ArenaTableBytes(img)
            \o ArenaRecBytes(img)
            \o Concat([k \in 1 .. Len(img.segs) |-> SegBytes(img, img.segs[k])])

(***************************************************************************)
(* The instructions and scripts the inputs are built from.                 *)
(***************************************************************************)
NameA == <<65>>

NameB == <<66>>

NameZ == <<90>>      \* no arena has this name

NameE == <<101>>

NameD == <<100>>

FZero == <<0, 0, 0, 0>>

FQuarter == <<0, 0, 128, 62>>

FHalf == <<0, 0, 0, 63>>

FOne == <<0, 0, 128, 63>>

FNaN == <<0, 0, 192, 127>>

Pos1 == FOne \o FZero \o FHalf

\* the script segments of a file, in file order; end is the offset of the end
\* of the file
Seg ==
    [main |-> 1, b |-> 2, r |-> 3, s |-> 4, d |-> 5, animNamed |-> 6,
     animIndexed |-> 7, end |-> 8]

I01 == Ins(<<1>>, -1)

I0B == Ins(<<11, 3>>, -1)

I09 == Ins(<<9>>, -1)

I10(h) == Ins(<<16, h, 0>>, -1)

I3B(seg) == Ins(<<59>>, seg)

IDelayF(f) == Ins(<<64, 3>> \o f, -1)

IDelayV(tag, index) == Ins(<<64, tag, index>>, -1)

I49 == Ins(<<73, 7>>, -1)

I74(flags) == Ins(<<116>> \o U32Bytes(flags), -1)

ISpawnDoor(name, target, seg) ==
    Ins(<<149>> \o Pos1 \o FZero \o U32Bytes(7) \o PStrBytes(name) \o PStrBytes(target),
        seg)

I96 == Ins(<<150>> \o U32Bytes(1) \o U32Bytes(2), -1)

I97 == Ins(<<151>> \o PStrBytes(<<97>>) \o PStrBytes(<<>>) \o PStrBytes(<<98>>)
               \o PStrBytes(<<>>), -1)

I98(flags) == Ins(<<152>> \o U32Bytes(flags), -1)

I99 == Ins(<<153>> \o FOne, -1)

ISpawnPickup(name, seg) == Ins(<<161>> \o Pos1 \o PStrBytes(name), seg)

ISpawnEntity(name, id, seg) ==
    Ins(<<230>> \o Pos1 \o FZero \o U32Bytes(id) \o PStrBytes(name), seg)

IFF == Ins(<<255>>, -1)

IUnknown(op) == Ins(<<op>>, -1)

Spawns ==
    {ISpawnDoor(NameD, NameB, Seg.d), ISpawnDoor(NameD, NameA, 0),
     ISpawnDoor(NameE, NameB, Seg.r), ISpawnDoor(NameD, NameZ, Seg.d),
     ISpawnPickup(NameE, Seg.r), ISpawnPickup(NameD, 0),
     ISpawnEntity(NameE, 1, Seg.r), ISpawnEntity(NameD, 2, 0),
     ISpawnEntity(NameE, 1, Seg.main), ISpawnEntity(NameD, 2, Seg.end)}

Menu ==
    {I01, I0B, I09, I10(0), I10(5), I3B(Seg.animNamed), I3B(Seg.animIndexed),
     I3B(Seg.end),
     IDelayF(FOne), IDelayF(FHalf), IDelayF(FQuarter), IDelayF(FZero), IDelayF(FNaN),
     IDelayV(0, 0), IDelayV(1, 3), IDelayV(2, 1), IDelayV(2, 4), IDelayV(4, 0),
     IDelayV(5, 1), I49, I74(6), I96, I97, I98(32), I99, IFF, IUnknown(0), IUnknown(5)}
        \cup Spawns

Firsts == {I01, I10(0), I10(5), IDelayF(FOne), IDelayF(FHalf), I74(1), IUnknown(0)}

Seconds == {I0B, I74(6), IDelayF(FOne), ISpawnEntity(NameE, 1, Seg.r), I10(0)}

Mains ==
    {<<i, IFF>> : i \in Menu} \cup {<<i, I09>> : i \in Spawns} \cup {<<i>> : i \in {I0B}}
        \cup {<<i, j, IFF>> : i \in Firsts, j \in Seconds}

SpawnMains ==
    {<<i, t>> : i \in {ISpawnEntity(NameE, 1, Seg.r), ISpawnDoor(NameE, NameB, Seg.r),
                       ISpawnPickup(NameE, Seg.r)},
                t \in {IFF, I09}}

RScripts ==
    {<<IFF>>, <<IDelayF(FOne), I0B, IFF>>, <<I10(0), I0B, IFF>>, <<IUnknown(0), I0B, IFF>>,
     <<I01, I49, I09>>, <<ISpawnEntity(NameE, 1, Seg.r), IFF>>}

SScripts ==
    {<<I0B, IFF>>, <<IDelayF(FOne), I49, IFF>>, <<I10(0), I49, IFF>>,
     <<ISpawnEntity(NameE, 3, 0), IFF>>, <<IUnknown(0), I49, IFF>>}

DScript == <<I96, I97, I98(32), I99, IDelayF(FHalf), I0B, IFF>>

BScript == <<I0B, IFF>>

AnimNamed == <<Ins(U32Bytes(0) \o <<119, 97, 108, 107, 0, 0, 0, 0>>, -1)>>

AnimIndexed == <<Ins(U32Bytes(2), -1)>>

LevelName == <<76, 0, 0, 0, 0, 0, 0, 0, 0, 0, 0, 0>>

Bsp(arenaName, name, id) ==
    [arenaName |-> arenaName, name |-> name, id |-> id, position |-> Pos1, value |-> 0]

Bsps ==
    {<<>>, <<Bsp(NameA, NameE, 1)>>, <<Bsp(NameA, NameE, 1), Bsp(NameB, NameD, 2)>>,
     <<Bsp(NameZ, NameE, 1)>>}

\* a file with arenas A and B, an init record for A$e_1 and, if withSetup,
\* a setup template for A$e
Image(main, r, s, withSetup, b) ==
    [levelName |-> LevelName,
     inits  |-> <<[key |-> InitKey(Bsp(NameA, NameE, 1)), seg |-> Seg.r]>>,
     setups |-> IF withSetup
                THEN <<[key |-> NameA \o <<Dollar>> \o NameE, seg |-> Seg.s]>> ELSE <<>>,
     arenas |-> <<[key |-> NameA, seg |-> Seg.main], [key |-> NameB, seg |-> Seg.b]>>,
     segs   |-> <<main, BScript, r, s, DScript, AnimNamed, AnimIndexed>>,
     bsp    |-> b]

\* one arena "A", no init or setup entries, no BspEntity, bytecode 0xFF alone
Minimal ==
    [levelName |-> LevelName, inits |-> <<>>, setups |-> <<>>,
     arenas |-> <<[key |-> NameA, seg |-> Seg.main]>>, segs |-> <<<<IFF>>>>,
     bsp |-> <<>>]

\* malformed files: a level name with a control character, a level name with a
\* character after its first NUL, a setup key that names no arena
BadImages ==
    {[Minimal EXCEPT !.levelName = <<76, 7, 0, 0, 0, 0, 0, 0, 0, 0, 0, 0>>],
     [Minimal EXCEPT !.levelName = <<76, 0, 65, 0, 0, 0, 0, 0, 0, 0, 0, 0>>],
     [Minimal EXCEPT !.setups = <<[key |-> NameZ \o <<Dollar>> \o NameE, seg |-> Seg.main]>>]}

\* the one arena file cut off inside its tables and inside its arena record
TruncatedFiles == {SubSeq(FileBytes(Minimal), 1, n) : n \in {10, 20, 37, 41}}

Images ==
    {Image(main, <<IDelayF(FOne), I0B, IFF>>, <<I0B, IFF>>, TRUE,
           <<Bsp(NameA, NameE, 1)>>) : main \in Mains}
        \cup {Image(main, r, s, w, b) :
                main \in SpawnMains, r \in RScripts, s \in SScripts,
                w \in BOOLEAN, b \in Bsps}
        \cup {Minimal}

\* what go() is called with: the buffer and the BspEntity list
Inputs ==
    {[mem |-> FileBytes(img), bsp |-> img.bsp] : img \in Images \cup BadImages}
        \cup {[mem |-> f, bsp |-> <<>>] : f \in TruncatedFiles}

(***************************************************************************)
(* The specification of part_000's go().                                   *)
(***************************************************************************)
Init ==
    /\ \E input \in Inputs : mem = input.mem /\ bsp = input.bsp
    /\ pc = "start"
    /\ level = [name |-> <<>>, arenas |-> <<>>, variables |-> NoVars]
    /\ initOffsets = <<>>
    /\ ents = <<>>
    /\ arenas = <<>>
    /\ stack = <<>>
    /\ si = 1
    /\ tick = 0
    /\ ai = 1
    /\ ei = 1
    /\ passLen = 0
    /\ passNo = 0
    /\ hist = <<>>
    /\ last = NoEvent("init")
    /\ temp = <<>>
    /\ prior = <<>>

Next ==
    \/ Load \/ Seed \/ SeedDone \/ Visit \/ Finish
    \/ Op01 \/ Op0B \/ Op09 \/ Op10 \/ Op3B \/ Op40 \/ Op49 \/ Op74
    \/ Op95 \/ Op96 \/ Op97 \/ Op98 \/ Op99 \/ OpA1 \/ OpE6 \/ OpFF
    \/ OpDefault \/ OpFault

Spec == Init /\ [][Next]_vars

(***************************************************************************)
(* cmi.ts: the loader that skips operands by a schema table.  Under        *)
(* SpecSchema the heap ents holds cmi.ts's Entity and Arena objects (name  *)
(* and callstack, a Reader being its offset), arenas their entities and    *)
(* entity_setup_templates, level.arenas the Map in insertion order, stack  *)
(* the running run_bytecode call with its loopcount, (ai, passNo, ei) the  *)
(* position of the driver, and hist the calls of run_bytecode made so far. *)
(***************************************************************************)
\* the codes 'p', 'b', 'c' and 'v' of a schema; a code >= 0 is a number
CodeP == -1

CodeB == -2

CodeC == -3

CodeV == -4

null == [t |-> "null", codes |-> <<>>]

todo(n) == [t |-> "todo", codes |-> <<n>>]

\* a schema that is one code, and a schema that is an array of codes
One(code) == [t |-> "one", codes |-> <<code>>]

Arr(codes) == [t |-> "array", codes |-> codes]

pb == Arr(<<CodeP, CodeB>>)

cb == Arr(<<CodeC, CodeB>>)

opcodes == <<
    \* 0x00
    null, One(0), todo(2), todo(3), todo(4), One(4), One(0), null, One(2), One(0),
    Arr(<<CodeP, 1, CodeB>>), One(1), todo(12), One(CodeB), Arr(<<3, CodeB>>), One(0),
    \* 0x10
    One(2), One(CodeB), Arr(<<4, CodeB>>), One(0), One(0), One(4), One(CodeB), One(1),
    Arr(<<1, CodeP>>), One(CodeP), One(CodeP), One(CodeB), One(4),
    Arr(<<1, CodeP, 4>>), null, todo(31),
    \* 0x20
    todo(32), Arr(<<4, CodeB>>), One(CodeB), One(1), One(1), One(CodeB), cb,
    One(CodeV), One(CodeV), One(1), todo(42), One(8), One(CodeB), cb, One(CodeB),
    Arr(<<4, CodeB>>),
    \* 0x30
    Arr(<<4, CodeB>>), Arr(<<1, CodeB>>), One(CodeV), One(CodeV), One(CodeV),
    One(CodeV), cb, One(CodeV), One(2), Arr(<<3, CodeB>>), One(CodeV), todo(59),
    One(0), todo(61), cb, One(1),
    \* 0x40
    One(CodeV), One(6), One(6), Arr(<<2, CodeC, CodeB>>), One(2), One(2), One(2),
    Arr(<<2, CodeB>>), Arr(<<2, CodeB>>), One(1), Arr(<<2, CodeP>>), One(0), One(4),
    Arr(<<1, CodeP>>), One(12), One(12),
    \* 0x50
    One(12), Arr(<<1, CodeV>>), One(CodeV), todo(83), One(CodeV), One(1),
    Arr(<<12, CodeP, CodeB>>), Arr(<<5, CodeB>>), One(1), todo(89), Arr(<<CodeP, 4>>),
    One(CodeV), One(2), One(16), todo(94), todo(95),
    \* 0x60
    Arr(<<16, CodeB>>), One(1), One(2), One(6), One(CodeP), One(0), One(CodeB),
    Arr(<<24, CodeB>>), One(4), One(20), One(4), One(CodeP), One(CodeB), One(1),
    One(0), One(4),
    \* 0x70
    Arr(<<CodeP, 16>>), Arr(<<12, CodeP, 4>>), One(CodeB), Arr(<<8, CodeB>>), One(4),
    One(4), One(4), Arr(<<CodeP, CodeC, CodeB>>), One(4), Arr(<<4, CodeB>>), One(8),
    One(CodeB), One(4), One(0), One(0), cb,
    \* 0x80
    Arr(<<CodeP, 2>>), todo(129), One(0), One(1), todo(132), Arr(<<CodeP, 5>>),
    One(CodeV), One(4), One(34), One(13), One(37), One(25), One(3), One(9),
    Arr(<<1, CodeP, 6>>), One(CodeP),
    \* 0x90
    Arr(<<CodeP, 30>>), Arr(<<CodeP, 8>>), Arr(<<1, CodeP, 24>>), One(CodeP),
    Arr(<<CodeP, 2>>), Arr(<<20, CodeP, CodeP, 4>>), todo(150),
    Arr(<<CodeP, CodeP, CodeP, CodeP>>), One(4), One(4), One(2), Arr(<<CodeV, CodeB>>),
    Arr(<<1, CodeP, 4>>), Arr(<<CodeP, 8>>), todo(158), todo(159),
    \* 0xA0
    cb, Arr(<<12, CodeP, 4>>), One(3), Arr(<<1, CodeC, CodeB>>), todo(164), One(CodeB),
    One(CodeB), One(4), One(2), One(CodeV), One(4), One(CodeB), todo(172), todo(173),
    Arr(<<1, CodeC, CodeB>>), Arr(<<1, CodeC, CodeB>>),
    \* 0xB0
    One(CodeB), One(CodeV), todo(178), Arr(<<CodeP, 4>>), todo(180), todo(181), null,
    todo(183), One(12), cb, One(5), One(8), cb, todo(189), Arr(<<1, CodeP>>),
    Arr(<<1, CodeC, CodeB>>),
    \* 0xC0
    Arr(<<16, CodeB>>), todo(193), One(5), Arr(<<1, CodeB>>), null, One(CodeB),
    Arr(<<CodeP, 9>>), One(CodeV), Arr(<<16, CodeB>>), One(8), One(1), todo(203),
    One(0), One(1), Arr(<<8, CodeP, 4>>), Arr(<<8, CodeB>>),
    \* 0xD0
    pb, One(CodeB), One(CodeV), One(0), One(CodeB), cb, cb, One(CodeV), One(6), One(5),
    One(4), Arr(<<8, CodeB>>), One(12), Arr(<<1, CodeB>>), cb, One(CodeP),
    \* 0xE0
    todo(224), One(CodeB), One(20), null, One(CodeP), Arr(<<4, CodeB>>),
    Arr(<<20, CodeP, CodeB>>), One(CodeB), Arr(<<1, CodeB>>), pb, cb, One(16),
    Arr(<<12, CodeB>>), Arr(<<24, CodeB>>), Arr(<<1, CodeC, CodeB>>), One(24),
    \* 0xF0
    One(1), cb, todo(242), Arr(<<3, CodeB>>), One(5), todo(245), One(5),
    Arr(<<1, CodeP, 4>>), todo(248), todo(249), todo(250), One(1), todo(252), One(0),
    null, null
>>

\* the table with the entry of opcode 0xFF replaced
WithEntryFF(entry) == [opcodes EXCEPT ![256] = entry]

LoopCount == 10000

StackLimit == 1000

\* the codes applied with tag 0x0C of 'b' left out
ApplyCodeNoTag0C(m, o, code) ==
    IF code >= 0 THEN ReadOk(0, o + code)
    ELSE IF code = CodeP
    THEN LET s == pstr(m, o) IN IF s.ok THEN ReadOk(0, s.off) ELSE ReadFail(o)
    ELSE LET x == u8(m, o)
         IN  IF ~x.ok THEN ReadFail(o)
             ELSE IF code = CodeB
             THEN ReadOk(0, IF x.val = 254 THEN x.off + 8
                            ELSE IF x.val = 252 THEN x.off + 4
                            ELSE x.off)
             ELSE IF code = CodeC
             THEN ReadOk(0, IF x.val = 7 \/ x.val = 8 THEN x.off + 8 ELSE x.off + 4)
             ELSE ReadOk(0, IF x.val = 3 THEN x.off + 4 ELSE x.off + 1)

\* one code of a schema applied to the Reader at offset o
ApplyCode(m, o, code) ==
    IF code >= 0 THEN ReadOk(0, o + code)
    ELSE IF code = CodeP
    THEN LET s == pstr(m, o) IN IF s.ok THEN ReadOk(0, s.off) ELSE ReadFail(o)
    ELSE LET x == u8(m, o)
         IN  IF ~x.ok THEN ReadFail(o)
             ELSE IF code = CodeB
             THEN ReadOk(0, IF x.val = 254 THEN x.off + 8
                            ELSE IF x.val = 252 \/ x.val = 12 THEN x.off + 4
                            ELSE x.off)
             ELSE IF code = CodeC
             THEN ReadOk(0, IF x.val = 7 \/ x.val = 8 THEN x.off + 8 ELSE x.off + 4)
             ELSE ReadOk(0, IF x.val = 3 THEN x.off + 4 ELSE x.off + 1)

RECURSIVE ApplyCodes(_, _, _)
ApplyCodes(m, o, codes) ==
    IF codes = <<>> THEN ReadOk(0, o)
    ELSE LET r == ApplyCode(m, o, Head(codes))
         IN  IF r.ok THEN ApplyCodes(m, r.off, Tail(codes)) ELSE r

Outcome(kind, op, off) == [kind |-> kind, op |-> op, off |-> off]

\* a schema that is not an array is appended to temp
WrapPush(tmp, code) == Append(tmp, code)

\* temp.length = 1; temp[0] = thing; thing = temp
Wrap(tmp, code) ==
    LET resized == IF tmp = <<>> THEN <<Undefined>> ELSE SubSeq(tmp, 1, 1)
    IN  [resized EXCEPT ![1] = code]

\* the array the loop over the codes walks: the schema itself when it is an
\* array, temp otherwise
Codes(tmp, thing) == IF thing.t = "one" THEN Wrap(tmp, thing.codes[1]) ELSE thing.codes

\* the asserts, the table lookup and the operand codes of one turn of the
\* loops of run_bytecode: every opcode but 0xFF
DecodeByTable(tbl, m, o, depth, loopcount, tmp) ==
    LET opcode == u8(m, o)
        thing == tbl[opcode.val + 1]
        r == ApplyCodes(m, opcode.off, Codes(tmp, thing))
    IN  IF depth >= StackLimit THEN Outcome("assert", -1, o)
        ELSE IF loopcount = 0 THEN Outcome("assert", -1, o)
        ELSE IF ~opcode.ok THEN Outcome("throw", -1, o)
        ELSE IF thing.t = "null" THEN Outcome("assert", opcode.val, opcode.off)
        ELSE IF thing.t = "one" /\ thing.codes = <<255>>
        THEN Outcome("done", opcode.val, opcode.off)
        ELSE IF thing.t = "todo" THEN Outcome("todo", opcode.val, opcode.off)
        ELSE IF r.ok THEN Outcome("continue", opcode.val, r.off)
        ELSE Outcome("throw", opcode.val, opcode.off)

\* a turn that looks opcode 0xFF up in the table like any other opcode
DecodeNoEndTest(tbl, m, o, depth, loopcount, tmp) ==
    DecodeByTable(tbl, m, o, depth, loopcount, tmp)

\* one turn of the loops of run_bytecode (cmi.ts lines 186-259) on the Reader
\* at offset o under the table tbl
Decode(tbl, m, o, depth, loopcount, tmp) ==
    LET opcode == u8(m, o)
    IN  IF depth < StackLimit /\ loopcount # 0 /\ opcode.ok /\ opcode.val = 255
        THEN Outcome("finished", 255, opcode.off)
        ELSE DecodeByTable(tbl, m, o, depth, loopcount, tmp)

CmiEntity(kind, name, offset) ==
    [kind |-> kind, name |-> name,
     callstack |-> IF offset # 0 THEN <<offset>> ELSE <<>>]

CmiArenaFields == [entities |-> <<>>, entity_setup_templates |-> <<>>]

\* read_offsets: the pairs in file order
RECURSIVE ReadPairs(_, _, _, _)
ReadPairs(m, o, count, acc) ==
    IF count = 0 THEN ReadOk(acc, o)
    ELSE LET name == pstr(m, o)
             offset == u32(m, name.off)
         IN  IF ~name.ok \/ ~offset.ok THEN ReadFail(o)
             ELSE ReadPairs(m, offset.off, count - 1,
                            Append(acc, [k |-> name.val, v |-> offset.val]))

read_offsets(m, o) ==
    LET num_offsets == u32(m, o)
    IN  IF num_offsets.ok THEN ReadPairs(m, num_offsets.off, num_offsets.val, <<>>)
        ELSE ReadFail(o)

\* the loop over arena_offsets: the heap of Arena objects and the Map
RECURSIVE NewArenas(_, _, _, _)
NewArenas(recs, i, heap, map) ==
    IF i > Len(recs) THEN [ents |-> heap, map |-> map]
    ELSE NewArenas(recs, i + 1,
                   Append(heap, CmiEntity("Arena", recs[i].name, recs[i].scriptOffset)),
                   MapSet(map, recs[i].name, Len(heap) + 1))

\* the loops over init_offsets (templates = FALSE) and setup_offsets
RECURSIVE PushEntities(_, _, _, _, _, _)
PushEntities(map, tbl, i, heap, ar, templates) ==
    IF i > Len(tbl) THEN [ok |-> TRUE, ents |-> heap, arenas |-> ar]
    ELSE LET key == SplitKey(tbl[i].k)
             arena == MapGet(map, key.arenaName)
             n == Len(heap) + 1
         IN  IF arena = 0 THEN [ok |-> FALSE]
             ELSE PushEntities(map, tbl, i + 1,
                     Append(heap, CmiEntity("Entity", key.entityName, tbl[i].v)),
                     IF templates
                     THEN [ar EXCEPT ![arena].entity_setup_templates = Append(@, n)]
                     ELSE [ar EXCEPT ![arena].entities = Append(@, n)],
                     templates)

\* go() up to the driver (cmi.ts lines 107-156)
CmiHeader(m) ==
    LET level_name    == str(m, 0, 12)
        init_offsets  == read_offsets(m, level_name.off + 4)
        mesh_offsets  == read_offsets(m, init_offsets.off)
        setup_offsets == read_offsets(m, mesh_offsets.off)
        arena_offsets == read_offsets(m, setup_offsets.off)
        recs == ReadArenas(m, arena_offsets.val, 1, <<>>)
    IN  IF ~level_name.ok THEN [ok |-> FALSE]
        ELSE IF ~init_offsets.ok THEN [ok |-> FALSE]
        ELSE IF ~mesh_offsets.ok THEN [ok |-> FALSE]
        ELSE IF ~setup_offsets.ok THEN [ok |-> FALSE]
        ELSE IF ~arena_offsets.ok THEN [ok |-> FALSE]
        ELSE IF ~recs.ok THEN [ok |-> FALSE]
        ELSE LET a == NewArenas(recs.val, 1, <<>>, <<>>)
                 ar0 == [i \in 1 .. Len(a.ents) |-> CmiArenaFields]
                 e == PushEntities(a.map, init_offsets.val, 1, a.ents, ar0, FALSE)
                 t == PushEntities(a.map, setup_offsets.val, 1, e.ents, e.arenas, TRUE)
             IN  IF ~e.ok THEN [ok |-> FALSE]
                 ELSE IF ~t.ok THEN [ok |-> FALSE]
                 ELSE [ok |-> TRUE, ents |-> t.ents, arenas |-> t.arenas,
                       level |-> [name |-> level_name.val, arenas |-> a.map]]

\* the driver's passes over one arena, in the order of cmi.ts lines 158-171
ArenaFirst == <<"arena", "entities", "entity_setup_templates", "entities">>

PassOrder == <<"entities", "entity_setup_templates", "arena", "entities">>

Targets(a, what) ==
    IF what = "arena" THEN <<a>>
    ELSE IF what = "entities" THEN arenas[a].entities
    ELSE arenas[a].entity_setup_templates

\* the next call the driver makes from position (a, pn, i); a > Len(level.arenas)
\* when none is left
RECURSIVE Advance(_, _, _)
Advance(a, pn, i) ==
    IF a > Len(level.arenas) THEN [ai |-> a, passNo |-> 1, ei |-> 1]
    ELSE IF pn > Len(PassOrder) THEN Advance(a + 1, 1, 1)
    ELSE IF i > Len(Targets(level.arenas[a].v, PassOrder[pn])) THEN Advance(a, pn + 1, 1)
    ELSE [ai |-> a, passNo |-> pn, ei |-> i]

CmiFrame(ent, arena) == [ent |-> ent, arena |-> arena, loopcount |-> LoopCount]

\* the offset of the Reader on top of the callstack of the running call
Cursor == ents[stack[1].ent].callstack[Len(ents[stack[1].ent].callstack)]

CmiEvent(act, ent, o) == [act |-> act, ent |-> ent, at |-> Cursor, op |-> o.op,
                          end |-> o.off, depth |-> Len(ents[ent].callstack)]

\* go() up to the driver
SLoad ==
    /\ pc = "start"
    /\ LET h == CmiHeader(mem)
       IN  IF ~h.ok
           THEN /\ pc' = "failed"
                /\ last' = NoEvent("throw")
                /\ UNCHANGED <<level, ents, arenas>>
           ELSE /\ pc' = "run"
                /\ level' = h.level
                /\ ents' = h.ents
                /\ arenas' = h.arenas
                /\ last' = NoEvent("load")
    /\ UNCHANGED <<mem, bsp, temp, prior, initOffsets, stack, si, tick, ai, ei, passLen,
                   passNo, hist>>

\* the driver calls run_bytecode(level, arena, entity), which returns at once
\* when the callstack of the entity is empty
SCall ==
    /\ pc = "run" /\ stack = <<>>
    /\ LET cur == Advance(ai, passNo, ei)
           a == level.arenas[cur.ai].v
           entity == Targets(a, PassOrder[cur.passNo])[cur.ei]
       IN  /\ cur.ai <= Len(level.arenas)
           /\ ai' = cur.ai
           /\ passNo' = cur.passNo
           /\ ei' = cur.ei + 1
           /\ hist' = Append(hist, [arena |-> a, pass |-> cur.passNo, ent |-> entity])
           /\ stack' = IF ents[entity].callstack = <<>> THEN <<>>
                       ELSE <<CmiFrame(entity, a)>>
           /\ last' = [NoEvent("call") EXCEPT !.ent = entity]
    /\ UNCHANGED <<mem, bsp, temp, prior, pc, level, initOffsets, ents, arenas, si,
                   tick, passLen>>

\* the turn of the loop that the running call is about to make
Turn ==
    Decode(opcodes, mem, Cursor, Len(ents[stack[1].ent].callstack), stack[1].loopcount,
           temp)

\* temp after that turn: a schema that is one code has been stored in it
TempAfter ==
    IF Turn.kind \in {"continue", "throw"} /\ Turn.op >= 0 /\ opcodes[Turn.op + 1].t = "one"
    THEN Wrap(temp, opcodes[Turn.op + 1].codes[1])
    ELSE temp

InCall == pc = "run" /\ stack # <<>>

\* the schema's operands are skipped and the loop goes on
SSkip ==
    /\ InCall /\ Turn.kind = "continue"
    /\ ents' = [ents EXCEPT ![stack[1].ent].callstack =
                               [@ EXCEPT ![Len(@)] = Turn.off]]
    /\ stack' = [stack EXCEPT ![1].loopcount = @ - 1]
    /\ last' = CmiEvent("continue", stack[1].ent, Turn)
    /\ temp' = TempAfter
    /\ UNCHANGED <<mem, bsp, prior, pc, level, initOffsets, arenas, si, tick, ai, ei,
                   passLen, passNo, hist>>

\* a return that leaves the callstack of the entity as it is
EndCallKeepsStack(act) ==
    /\ stack' = <<>>
    /\ last' = CmiEvent(act, stack[1].ent, Turn)
    /\ UNCHANGED <<mem, bsp, temp, prior, pc, level, initOffsets, ents, arenas, si,
                   tick, ai, ei, passLen, passNo, hist>>

\* callstack.length = 0; return
EndCall(act) ==
    /\ ents' = [ents EXCEPT ![stack[1].ent].callstack = <<>>]
    /\ stack' = <<>>
    /\ last' = CmiEvent(act, stack[1].ent, Turn)
    /\ UNCHANGED <<mem, bsp, temp, prior, pc, level, initOffsets, arenas, si, tick, ai,
                   ei, passLen, passNo, hist>>

\* opcode 0xFF, or a schema that is the number 0xFF
SFinished ==
    /\ InCall /\ Turn.kind \in {"finished", "done"}
    /\ EndCall("finished")

\* a Todo handled like an opcode without a schema
STodoThrows ==
    /\ InCall /\ Turn.kind = "todo"
    /\ pc' = "failed"
    /\ last' = CmiEvent("assert", stack[1].ent, Turn)
    /\ UNCHANGED <<mem, bsp, temp, prior, level, initOffsets, ents, arenas, stack, si,
                   tick, ai, ei, passLen, passNo, hist>>

\* a schema that is a Todo
STodo ==
    /\ InCall /\ Turn.kind = "todo"
    /\ EndCall("todo")

\* an assert of run_bytecode fails: nothing in go() catches the Error
SAssert ==
    /\ InCall /\ Turn.kind = "assert"
    /\ pc' = "failed"
    /\ last' = CmiEvent("assert", stack[1].ent, Turn)
    /\ UNCHANGED <<mem, bsp, temp, prior, level, initOffsets, ents, arenas, stack, si,
                   tick, ai, ei, passLen, passNo, hist>>

\* a read past the end of the buffer, or a string that is not ascii
SThrow ==
    /\ InCall /\ Turn.kind = "throw"
    /\ pc' = "failed"
    /\ last' = CmiEvent("throw", stack[1].ent, Turn)
    /\ temp' = TempAfter
    /\ UNCHANGED <<mem, bsp, prior, level, initOffsets, ents, arenas, stack, si, tick,
                   ai, ei, passLen, passNo, hist>>

\* return level
SFinish ==
    /\ pc = "run" /\ stack = <<>>
    /\ Advance(ai, passNo, ei).ai > Len(level.arenas)
    /\ pc' = "returned"
    /\ last' = NoEvent("return level")
    /\ UNCHANGED <<mem, bsp, temp, prior, level, initOffsets, ents, arenas, stack, si,
                   tick, ai, ei, passLen, passNo, hist>>

\* what a call of go() gave: the Level it returned or the Error it threw, and
\* the calls of run_bytecode it made
Outcomes == [pc |-> pc, level |-> level, ents |-> ents, arenas |-> arenas,
             hist |-> hist, last |-> last]

\* the same process calls go() once more on the same buffer: the locals of the
\* new call are fresh, the module's temp is as the call before left it
SAgain ==
    /\ pc \in {"returned", "failed"}
    /\ prior = <<>>
    /\ prior' = <<Outcomes>>
    /\ pc' = "start"
    /\ level' = [name |-> <<>>, arenas |-> <<>>]
    /\ ents' = <<>>
    /\ arenas' = <<>>
    /\ stack' = <<>>
    /\ ai' = 1
    /\ ei' = 1
    /\ passNo' = 1
    /\ hist' = <<>>
    /\ last' = NoEvent("init")
    /\ UNCHANGED <<mem, bsp, temp, initOffsets, si, tick, passLen>>

(***************************************************************************)
(* The inputs of cmi.ts: files of two arenas, A with two entities and a    *)
(* setup template, B with one entity.                                      *)
(***************************************************************************)
Raw(bytes) == Ins(bytes, -1)

Word == <<1, 2, 3, 4>>

SchemaMenu ==
    {Raw(<<1>>), Raw(<<5>> \o Word),
     Raw(<<10>> \o PStrBytes(<<97>>) \o <<9, 254>> \o Word \o Word),
     Raw(<<10>> \o PStrBytes(<<>>) \o <<9, 252>> \o Word),
     Raw(<<10>> \o PStrBytes(<<97>>) \o <<9, 12>> \o Word),
     Raw(<<13, 0>>),
     Raw(<<38, 7>> \o Word \o Word \o <<0>>), Raw(<<38, 8>> \o Word \o Word \o <<0>>),
     Raw(<<38, 1>> \o Word \o <<0>>),
     Raw(<<39, 3>> \o Word), Raw(<<39, 0, 2>>),
     Raw(<<25, 1, 200>>), Raw(<<25, 9, 97>>)}

Enders == {Raw(<<255>>), Raw(<<2>>), Raw(<<0>>), Raw(<<7>>), Raw(<<254>>), Raw(<<1>>)}

SchemaScripts ==
    {<<t>> : t \in Enders} \cup {<<i, t>> : i \in SchemaMenu, t \in Enders}

E1Scripts == {<<Raw(<<255>>)>>, <<Raw(<<1>>), Raw(<<0>>)>>, <<Raw(<<1>>), Raw(<<2>>)>>}

SchemaImage(a, e1, e2, withTemplate, off) ==
    [levelName |-> LevelName,
     inits  |-> <<[key |-> NameA \o <<Dollar>> \o NameE, seg |-> 2],
                  [key |-> NameA \o <<Dollar>> \o NameD, seg |-> IF off THEN 0 ELSE 3],
                  [key |-> NameB \o <<Dollar>> \o NameE, seg |-> 2]>>,
     setups |-> IF withTemplate
                THEN <<[key |-> NameA \o <<Dollar>> \o NameE, seg |-> 4]>> ELSE <<>>,
     arenas |-> <<[key |-> NameA, seg |-> 1], [key |-> NameB, seg |-> 5]>>,
     segs   |-> <<a, e1, e2, <<Raw(<<1>>), Raw(<<255>>)>>, <<Raw(<<255>>)>>>>,
     bsp    |-> <<>>]

\* an init record that names no arena of the file
NoArenaImage ==
    [levelName |-> LevelName,
     inits  |-> <<[key |-> NameZ \o <<Dollar>> \o NameE, seg |-> 1]>>,
     setups |-> <<>>,
     arenas |-> <<[key |-> NameA, seg |-> 1]>>,
     segs   |-> <<<<Raw(<<255>>)>>>>,
     bsp    |-> <<>>]

\* the last script runs into the end of the file
OpenEndImage ==
    [levelName |-> LevelName, inits |-> <<>>, setups |-> <<>>,
     arenas |-> <<[key |-> NameA, seg |-> 1]>>,
     segs   |-> <<<<Raw(<<1>>), Raw(<<5>> \o Word)>>>>,
     bsp    |-> <<>>]

SchemaImages ==
    {SchemaImage(a, e1, <<Raw(<<1>>), Raw(<<255>>)>>, TRUE, FALSE) : a \in SchemaScripts,
                                                                e1 \in E1Scripts}
        \cup {SchemaImage(<<Raw(<<255>>)>>, e1, e2, w, off) :
                e1 \in E1Scripts, e2 \in SchemaScripts, w \in BOOLEAN, off \in BOOLEAN}
        \cup {NoArenaImage, OpenEndImage, Minimal}

(***************************************************************************)
(* The specification of cmi.ts's go().                                     *)
(***************************************************************************)
InitSchema ==
    /\ \E img \in SchemaImages : mem = FileBytes(img)
    /\ bsp = <<>>
    /\ pc = "start"
    /\ level = [name |-> <<>>, arenas |-> <<>>]
    /\ initOffsets = <<>>
    /\ ents = <<>>
    /\ arenas = <<>>
    /\ stack = <<>>
    /\ si = 1
    /\ tick = 0
    /\ ai = 1
    /\ ei = 1
    /\ passLen = 0
    /\ passNo = 1
    /\ hist = <<>>
    /\ last = NoEvent("init")
    /\ temp = <<>>
    /\ prior = <<>>

NextSchema ==
    \/ SLoad \/ SCall \/ SSkip \/ SFinished \/ STodo \/ SAssert \/ SThrow \/ SFinish
    \/ SAgain

SpecSchema == InitSchema /\ [][NextSchema]_vars

(***************************************************************************)
(* Properties of part_000's go(), checked under Spec.                      *)
(***************************************************************************)
\* the entity of the innermost executeScript() has executed a delay and is
\* about to decode its first instruction since
Resuming == Running /\ hist[Top.ent].delayAt # -1

\* the bytes of a variable operand at offset o: tag 3 is followed by a 4 byte
\* float, every other tag getVar accepts by a 1 byte index
VarOperandLen(o) == IF mem[o + 1] = 3 THEN 5 ELSE 2

\* C2: an entity that executed a delay opcode (0x40) and is resumed decodes
\* next at the offset just past the delay's operands: not at the delay opcode
\* and not at the offset the delayed call had started from
C2_ResumeAfterDelay ==
    Resuming =>
        /\ Top.off = hist[Top.ent].delayAt + 1 + VarOperandLen(hist[Top.ent].delayAt + 1)
        /\ Top.off # hist[Top.ent].delayAt
        /\ Top.off # hist[Top.ent].delayFrom

\* a tick resumes an entity whose delay {40 03 <1.0>} was followed by more
\* instructions
C2_Witness ==
    /\ Resuming /\ pc = "tick" /\ last.act = "visit" /\ Opcode.ok
    /\ Top.off = hist[Top.ent].delayAt + 6
    /\ hist[Top.ent].delayFrom < hist[Top.ent].delayAt

\* C4: once opcode 0x10 has set an entity's health to 0, no instruction of that
\* entity is decoded in the same pass over its arena
C4_DestroyedStopsForPass ==
    (pc = "tick" /\ Running) => hist[Top.ent].destroyedPass # passNo

\* the "finished script" lines of a log
FinishedLines(log) == {i \in 1 .. Len(log) : log[i].msg = "finished script"}

\* C3: loading the file with the one arena "A", no init and no setup entry
\* and the arena script {FF}, with no BspEntity, returns a level of one arena
\* with an empty entity list and exactly one "finished script" line in its log
C3_MinimalOneFinishedLine ==
    (mem = FileBytes(Minimal) /\ bsp = <<>> /\ pc = "returned") =>
        /\ Len(level.arenas) = 1
        /\ arenas[level.arenas[1]].entities = <<>>
        /\ Cardinality(FinishedLines(ents[level.arenas[1]].log)) = 1

\* the operands of the spawn door opcode under the script Reader
SpawnDoorArgs == Operands(<<"vec3", "f32", "i32", "pstr", "pstr", "u32">>)

\* the arenas of the level that have this name
NamedArenas(name) == {a \in DOMAIN arenas : ents[a].name = name}

\* C6: a spawn door opcode (0x95) naming an existing arena appends exactly one
\* new object, a Door, to the entity list of the issuing entity's arena and to
\* no other list, and the Door's targetArena is the very arena of that name
C6_SpawnDoorAppendsOne ==
    [][(Decodes(149) /\ SpawnDoorArgs.ok /\ NamedArenas(SpawnDoorArgs.val[5]) # {}) =>
          LET a == Cur.arena
              door == Len(ents) + 1
          IN  /\ Len(ents') = door
              /\ DOMAIN arenas' = DOMAIN arenas
              /\ arenas'[a].entities = Append(arenas[a].entities, door)
              /\ \A b \in DOMAIN arenas \ {a} : arenas'[b].entities = arenas[b].entities
              /\ ents'[door].kind = "Door"
              /\ ents'[door].name = SpawnDoorArgs.val[4]
              /\ NamedArenas(SpawnDoorArgs.val[5]) = {ents'[door].targetArena}]_vars

\* a script of arena A has spawned a Door to arena B
C6_Witness ==
    /\ last.act = "spawn" /\ last.op = 149
    /\ ents[Len(ents)].kind = "Door"
    /\ ents[Len(ents)].arena # ents[Len(ents)].targetArena
    /\ ents[ents[Len(ents)].targetArena].name = NameB
    /\ arenas[ents[Len(ents)].arena].entities[Len(arenas[ents[Len(ents)].arena].entities)]
           = Len(ents)

\* every Door's targetArena is an arena of the level
NoDanglingTarget ==
    \A i \in 1 .. Len(ents) : ents[i].kind = "Door" => ents[i].targetArena \in DOMAIN arenas

\* C7: a spawn door opcode (0x95) naming no arena of the level throws, and
\* creates and appends nothing; no Door ever has a targetArena that is not an
\* arena of the level
C7_SpawnDoorMissingArena ==
    /\ [][(Decodes(149) /\ SpawnDoorArgs.ok /\ NamedArenas(SpawnDoorArgs.val[5]) = {}) =>
             /\ pc' = "failed"
             /\ ents' = ents
             /\ arenas' = arenas]_vars
    /\ [](pc # "start" => NoDanglingTarget)

\* the load has failed on a spawn door opcode that names arena "Z"
C7_Witness ==
    /\ pc = "failed" /\ last.act = "throw" /\ last.op = 149
    /\ stack # <<>> /\ SpawnDoorArgs.ok
    /\ SpawnDoorArgs.val[5] = NameZ
    /\ NamedArenas(NameZ) = {}
    /\ \A i \in 1 .. Len(ents) : ents[i].kind # "Door"

\* the places of the entity lists: arena and index
Places ==
    {p \in (DOMAIN arenas) \X (1 .. MaxEnts + 1) : p[2] <= Len(arenas[p[1]].entities)}

\* C8: each entity of an arena's entity list has that arena as its arena, and
\* no entity is at two places of the lists
C8_ArenaBackReference ==
    pc # "start" =>
        /\ \A p \in Places : ents[arenas[p[1]].entities[p[2]]].arena = p[1]
        /\ \A p, q \in Places :
              arenas[p[1]].entities[p[2]] = arenas[q[1]].entities[q[2]] => p = q

\* two arenas have entities, the last of them spawned by a script
C8_Witness ==
    /\ last.act = "spawn"
    /\ \E a, b \in DOMAIN arenas :
          /\ a # b
          /\ arenas[a].entities # <<>>
          /\ Len(arenas[b].entities) >= 2

\* a setup run nested in a setup run of the same template for the same kind
\* of entity: what a script does from an offset depends on the bytes there,
\* the kind of the entity and the arena only, so the nesting repeats
RecurringSetup ==
    \E i, j \in 1 .. Len(stack) :
        /\ i < j
        /\ stack[i].setup /\ stack[j].setup
        /\ stack[i].start = stack[j].start
        /\ stack[j].off = stack[j].start
        /\ ents[stack[i].ent].kind = ents[stack[j].ent].kind
        /\ ents[stack[i].ent].arena = ents[stack[j].ent].arena

\* a pass runs, from its start, the script of an entity spawned in this pass
\* by a run of the same script for the same kind of entity of the same arena:
\* the list grows by one such entity for each one visited
RecurringSpawn ==
    /\ pc = "tick" /\ Len(stack) = 1 /\ last.act = "visit"
    /\ Top.off = Top.start
    /\ hist[Top.ent].delayAt = -1
    /\ hist[Top.ent].origin.ent # 0
    /\ hist[Top.ent].origin.pass = passNo
    /\ hist[Top.ent].origin.start = Top.start
    /\ ents[hist[Top.ent].origin.ent].kind = Cur.kind
    /\ ents[hist[Top.ent].origin.ent].arena = Cur.arena

\* C1: go() terminates within bounds: setup runs do not nest without bound and
\* no pass iterates without bound over an entity list that grows
C1_BoundedLoad == ~RecurringSetup /\ ~RecurringSpawn

(***************************************************************************)
(* Properties of cmi.ts's go(), checked under SpecSchema.                  *)
(***************************************************************************)
\* contents tried at index 0xFF of the schema table
EntriesFF ==
    {null, todo(255), One(0), One(4), One(255), One(CodeP), One(CodeV), pb, cb,
     Arr(<<1, CodeP, 4>>)}

\* the running call passes its guards and the byte it decodes next is 0xFF
DecodesFF ==
    /\ InCall
    /\ stack[1].loopcount # 0
    /\ Len(ents[stack[1].ent].callstack) < StackLimit
    /\ u8(mem, Cursor).ok
    /\ u8(mem, Cursor).val = 255

\* C5: a decoded opcode byte 0xFF ends the call of run_bytecode whatever the
\* schema table holds at index 0xFF: the callstack of the entity is emptied,
\* the call returns without a fault, and only the opcode byte is consumed
C5_EndOpcodeAlwaysEnds ==
    [][DecodesFF =>
          /\ \A entry \in EntriesFF :
                Decode(WithEntryFF(entry), mem, Cursor,
                       Len(ents[stack[1].ent].callstack), stack[1].loopcount, temp)
                    = Outcome("finished", 255, Cursor + 1)
          /\ pc' = "run"
          /\ stack' = <<>>
          /\ ents'[stack[1].ent].callstack = <<>>
          /\ last'.act = "finished"
          /\ last'.end = Cursor + 1]_vars

\* the arena script of the one arena file, {FF}, has ended on its first byte
C5_Witness ==
    /\ mem = FileBytes(Minimal)
    /\ Len(ents) = 1
    /\ last.act = "finished" /\ last.op = 255
    /\ last.at = SegOffset(Minimal, 1)
    /\ last.end = last.at + 1
    /\ ents[last.ent].callstack = <<>>
    /\ stack = <<>>

\* the calls of run_bytecode that go() makes for arena a: its entities, its
\* setup templates, the arena, its entities again
CallsOn(a) ==
    [i \in 1 .. Len(arenas[a].entities) |->
        [arena |-> a, pass |-> 1, ent |-> arenas[a].entities[i]]]
    \o [i \in 1 .. Len(arenas[a].entity_setup_templates) |->
        [arena |-> a, pass |-> 2, ent |-> arenas[a].entity_setup_templates[i]]]
    \o <<[arena |-> a, pass |-> 3, ent |-> a]>>
    \o [i \in 1 .. Len(arenas[a].entities) |->
        [arena |-> a, pass |-> 4, ent |-> arenas[a].entities[i]]]

\* one arena after the other, in the order of the Map
AllCalls == Concat([i \in 1 .. Len(level.arenas) |-> CallsOn(level.arenas[i].v)])

\* C9: for each arena in turn, go() runs the script of every entity, then of
\* every setup template, then of the arena, then of every entity again: the
\* calls made so far are the first calls of that order, a call is made only
\* when the one before has returned, and go() returns after all of them
C9_FourPassOrder ==
    /\ Len(hist) <= Len(AllCalls)
    /\ hist = SubSeq(AllCalls, 1, Len(hist))
    /\ stack # <<>> => (hist # <<>> /\ stack[1].ent = hist[Len(hist)].ent)
    /\ pc = "returned" => hist = AllCalls

\* go() has returned after the four passes over A (two entities, one template)
\* and then over B
C9_Witness ==
    /\ pc = "returned"
    /\ Len(level.arenas) = 2
    /\ Len(arenas[level.arenas[1].v].entities) = 2
    /\ Len(arenas[level.arenas[1].v].entity_setup_templates) = 1
    /\ Len(hist) = 9
    /\ hist[4].pass = 3 /\ hist[5].pass = 4 /\ hist[7].arena = level.arenas[2].v

\* C10: an opcode without a schema, and a tripped loop or stack guard, end the
\* script of the running entity only: its callstack is emptied, no other
\* object changes, and go() goes on to return the level
C10_FaultIsLocal ==
    [][(InCall /\ Turn.kind = "assert") =>
          /\ pc' = "run"
          /\ stack' = <<>>
          /\ ents' = [ents EXCEPT ![stack[1].ent].callstack = <<>>]]_vars

(***************************************************************************)
(* Further properties of part_000's go(), checked under Spec.              *)
(***************************************************************************)
\* the buffer is one of the malformed files, or a BspEntity names no arena
MalformedInput ==
    \/ mem \in {FileBytes(img) : img \in BadImages} \cup TruncatedFiles
    \/ \E i \in 1 .. Len(bsp) : bsp[i].arenaName = NameZ

\* the running script is at or past the end of the buffer
ScriptPastEnd == pc \in {"seed", "tick"} /\ stack # <<>> /\ Top.off >= Len(mem)

\* C11: on malformed input (a read past the end of the buffer, a fixed string
\* with a control character or with a character after its first NUL, a setup
\* key or a BspEntity that names no arena) go() throws: it never gets to the
\* tick loop and never returns a Level
C11_MalformedInputFails ==
    /\ [](MalformedInput => pc \in {"start", "seed", "failed"})
    /\ [](MalformedInput /\ bsp = <<>> => pc \in {"start", "failed"})
    /\ [][ScriptPastEnd => pc' = "failed"]_vars
    /\ [][pc = "failed" => pc' = "failed"]_vars

\* go() has thrown on the file whose level name holds a control character
C11_Witness ==
    /\ pc = "failed"
    /\ mem = FileBytes([Minimal EXCEPT !.levelName = <<76, 7, 0, 0, 0, 0, 0, 0, 0, 0, 0, 0>>])
    /\ level.arenas = <<>>

\* the opcodes that assert(entity instanceof DoorEntity)
DoorOnly == {150, 151, 152, 153}

\* C13: opcodes 0x96, 0x97, 0x98 and 0x99 decoded for an entity that is not a
\* DoorEntity throw: no operand is read, no object and no log changes, and the
\* script does not go on
C13_DoorOnlyOpcodes ==
    [][(\E op \in DoorOnly : Decodes(op) /\ Cur.kind # "Door") =>
          /\ pc' = "failed"
          /\ stack' = stack
          /\ ents' = ents
          /\ arenas' = arenas
          /\ last'.act = "throw"]_vars

\* go() has thrown on opcode 0x98 in the script of an arena
C13_Witness ==
    /\ pc = "failed" /\ last.act = "throw" /\ last.op = 152
    /\ ents[last.ent].kind = "Arena"
    /\ ents[last.ent].doorFlags = 0
    /\ Len(ents[last.ent].log) = 1
    /\ Top.off = last.at

\* getVar is about to read the operand of a delay at offset o (the byte after
\* the opcode), whose tag byte and the byte after it are in the script
VarTag(o) == mem[o + 1]

VarIndex(o) == mem[o + 2]

VarSlot(e, o) ==
    IF VarTag(o) = 0 THEN level.variables[VarIndex(o) + 1]
    ELSE IF VarTag(o) = 1 THEN arenas[e.arena].arenaVariables[VarIndex(o) + 1]
    ELSE e.variables[VarIndex(o) + 1]

\* C15: getVar takes 5 bytes and gives the float for tag 3; for tags 0, 1 and 2
\* it takes 2 bytes and gives slot index of the level's, the arena's or the
\* entity's variables when index is in 0..3 and fails otherwise; every other
\* tag fails. Stated of getVar at every offset of the script of the running
\* entity, and of the delay opcode that uses it.
C15_VariableResolver ==
    /\ [](Running =>
            \A o \in 0 .. Len(mem) - 2 :
                /\ VarTag(o) = 3 /\ o + 5 <= Len(mem) =>
                       getVar(Cur, mem, o)
                           = ReadOk(F32Value(mem[o + 2], mem[o + 3], mem[o + 4], mem[o + 5]),
                                    o + 5)
                /\ VarTag(o) \in {0, 1, 2} /\ VarIndex(o) \in 0 .. 3 =>
                       getVar(Cur, mem, o) = ReadOk(VarSlot(Cur, o), o + 2)
                /\ VarTag(o) \in {0, 1, 2} /\ VarIndex(o) \notin 0 .. 3 =>
                       ~getVar(Cur, mem, o).ok
                /\ VarTag(o) \notin 0 .. 3 => ~getVar(Cur, mem, o).ok)
    /\ [][(Decodes(64) /\ Top.off + 3 <= Len(mem) /\ VarTag(Top.off + 1) # 3) =>
             IF VarTag(Top.off + 1) \in {0, 1, 2} /\ VarIndex(Top.off + 1) \in 0 .. 3
             THEN /\ pc' # "failed"
                  /\ ents'[Top.ent].scriptOffsetAfterDelay = Top.off + 3
                  /\ ents'[Top.ent].scriptDelay = VarSlot(Cur, Top.off + 1)
             ELSE pc' = "failed" /\ ents' = ents /\ last'.act = "throw"]_vars

\* a delay whose operand has tag 4 and index 0 has failed the load
C15_Witness ==
    /\ pc = "failed" /\ last.act = "throw" /\ last.op = 64
    /\ VarTag(last.at + 1) = 4
    /\ VarIndex(last.at + 1) = 0
    /\ ents[last.ent].scriptDelay = 0


IsPrefix(s, t) == Len(s) <= Len(t) /\ SubSeq(t, 1, Len(s)) = s

\* the lines of a log that log() pushed: they carry the offset and the opcode
\* of an instruction; the lines of the constructor and of spawnEntity do not
TraceLines(lines) == SelectSeq(lines, LAMBDA line : line.at >= 0)

\* the entity of the running script decodes an opcode and the load goes on
Executes == Running /\ Opcode.ok /\ pc' # "failed"

SecondOperand == Top.off + 1 + 1 + mem[Top.off + 2]

\* C18: a pstr whose length byte is 0 is the empty string and moves the Reader
\* by 1 byte, wherever in the file it is read; and "set door sounds", whose
\* second name is such a pstr, logs the empty string for it and reads its third
\* name from the next byte
C18_EmptyPstr ==
    /\ [](\A o \in 0 .. Len(mem) - 1 :
             mem[o + 1] = 0 => pstr(mem, o) = ReadOk(<<>>, o + 1))
    /\ [][(Decodes(151) /\ pc' # "failed" /\ mem[SecondOperand + 1] = 0) =>
             LET line == ents'[Top.ent].log[Len(ents'[Top.ent].log)]
             IN  /\ line.args[2] = <<>>
                 /\ line.args[3] = pstr(mem, SecondOperand + 1).val
                 /\ line.args[3] = SubSeq(mem, SecondOperand + 3,
                                          SecondOperand + 2 + mem[SecondOperand + 2])]_vars

\* "set door sounds" has logged the names "a", "", "b", ""
C18_Witness ==
    /\ last.op = 151 /\ last.act = "continue"
    /\ ents[last.ent].log[Len(ents[last.ent].log)].args = <<<<97>>, <<>>, <<98>>, <<>>>>
    /\ mem[last.at + 4] = 0
    /\ last.end = last.at + 7


\* C19: an entity whose script a pass over arena.entities starts to run was
\* not appended to that list during this pass
C19_SpawnedRunsInLaterPass ==
    (pc = "tick" /\ last.act = "visit" /\ ents[last.ent].kind # "Arena") =>
        hist[last.ent].born < passNo


\* the entities of the heap are numbered in the order of their construction,
\* and spawnEntity is called on an entity as soon as it is constructed
InSpawnOrder(list) == \A i, j \in 1 .. Len(list) : i < j => list[i] < list[j]

\* C20: no step removes or reorders an entity of an arena's list: the list
\* before the step is a prefix of the list after it; the list is in the order
\* of the spawns; and a pass calls the entities of the list one index after the
\* other from the first, then the arena
C20_AppendOnlyList ==
    /\ [](\A a \in DOMAIN arenas : InSpawnOrder(arenas[a].entities))
    /\ [][\A a \in DOMAIN arenas :
             a \in DOMAIN arenas' /\ IsPrefix(arenas[a].entities, arenas'[a].entities)]_vars
    /\ [][(pc = "tick" /\ <<ei, ai>> # <<ei', ai'>>) =>
             LET list == arenas[level.arenas[ai]].entities
             IN  /\ last'.act \in {"visit", "idle"}
                 /\ IF ei <= Len(list)
                    THEN last'.ent = list[ei] /\ ei' = ei + 1 /\ ai' = ai
                    ELSE last'.ent = level.arenas[ai] /\ ei' = 1]_vars

\* a pass has come to the third entity of a list, which a script spawned
C20_Witness ==
    /\ pc = "tick" /\ ei = 4 /\ last.act = "visit"
    /\ LET list == arenas[level.arenas[ai]].entities
       IN  /\ Len(list) >= 3
           /\ last.ent = list[3]
           /\ hist[list[3]].origin.ent # 0
           /\ hist[list[1]].origin.ent = 0


\* an iteration of the tick loop calls the callback of go() on an entity
Iterates == pc = "tick" /\ stack = <<>> /\ pc' = "tick"

\* that entity has a resume offset pending
Pending == ents[last'.ent].scriptOffsetAfterDelay # 0

\* the counter of that entity less 0.5 and not below 0, in quarter units
Decremented ==
    IF ents[last'.ent].scriptDelay - 2 >= 0 THEN ents[last'.ent].scriptDelay - 2 ELSE 0

\* C21: an iteration takes 0.5 off the delay counter of the entity, not going
\* below 0, before it calls executeScript; an entity with a resume offset
\* pending resumes there when its counter after that is 0 or below, and is not
\* run when it is above
C21_TickThenResume ==
    [][Iterates =>
          /\ ents[last'.ent].scriptDelay # NaN => ents'[last'.ent].scriptDelay = Decremented
          /\ ents'[last'.ent].scriptDelay # NaN /\ ents'[last'.ent].scriptDelay >= 0
          /\ Pending =>
                IF ents'[last'.ent].scriptDelay # NaN /\ ents'[last'.ent].scriptDelay <= 0
                THEN /\ last'.act = "visit"
                     /\ stack'[1].off = ents[last'.ent].scriptOffsetAfterDelay
                     /\ ents'[last'.ent].scriptOffsetAfterDelay = 0
                ELSE /\ last'.act = "idle"
                     /\ stack' = <<>>
                     /\ ents'[last'.ent].scriptOffsetAfterDelay
                            = ents[last'.ent].scriptOffsetAfterDelay]_vars


\* the state of an entity as executeScript sees it
Idle(e) == e.scriptOffset = 0 /\ e.scriptOffsetAfterDelay = 0

Blocked(e) == e.scriptOffsetAfterDelay # 0 /\ e.scriptDelay # NaN /\ e.scriptDelay > 0

\* C22: executeScript on an entity that is idle or blocked returns at once: no
\* call is left running, so no instruction is decoded, and the entity, every
\* other object, the entity lists and the variables of the level are as before
C22_IdleOrBlockedNoEffect ==
    /\ [](\A i \in 1 .. Len(ents) :
             Idle(ents[i]) \/ Blocked(ents[i]) =>
                 ScriptEntry(ents[i]) = [run |-> FALSE, off |-> 0, ent |-> ents[i]])
    /\ [][(Iterates /\ LET ticked == [ents[last'.ent] EXCEPT !.scriptDelay = TickDelay(@)]
                        IN  Idle(ticked) \/ Blocked(ticked)) =>
             /\ stack' = <<>>
             /\ last'.act = "idle"
             /\ ents' = [ents EXCEPT ![last'.ent].scriptDelay = TickDelay(@)]
             /\ arenas' = arenas
             /\ level' = level]_vars

\* the tick loop has called executeScript on an entity blocked with 0.5 left
C22_Witness ==
    /\ pc = "tick" /\ stack = <<>> /\ last.act = "idle"
    /\ ents[last.ent].kind = "Entity"
    /\ Blocked(ents[last.ent])
    /\ ents[last.ent].scriptDelay = 2
    /\ Len(ents[last.ent].log) >= 2


Count(lines, msg) == Len(SelectSeq(lines, LAMBDA line : line.msg = msg))

\* the calls of executeScript that spawnEntity made for entity i and that
\* have not returned
SetupCalls(i) == {k \in 1 .. Len(stack) : stack[k].setup /\ stack[k].ent = i}

InList(i) == \E k \in 1 .. Len(arenas[ents[i].arena].entities) :
                 arenas[ents[i].arena].entities[k] = i

\* a spawn opcode is executed: the entity it constructs and the scriptOffset it
\* hands to spawnEntity, which is the last operand of each of the three
Spawned == Len(ents) + 1

Template == MapGet(arenas[Cur.arena].setupOffsets, ents'[Spawned].name)

RuntimeOffset == u32(mem, last'.end - 4).val

\* C23: spawnEntity runs the setup template of the entity's name once: the run
\* starts at the template with the entity already at the end of the list, and
\* when it returns the cursor of the entity is the offset the spawn gave,
\* whatever the setup script left there; without a template the cursor is that
\* offset at once
C23_SetupOnceThenRuntime ==
    /\ [](\A i \in 1 .. Len(ents) :
             /\ Count(ents[i].log, "Running setup") <= 1
             /\ Count(ents[i].log, "Setup complete") <= Count(ents[i].log, "Running setup")
             /\ Cardinality(SetupCalls(i)) <= 1
             /\ SetupCalls(i) # {} =>
                    /\ InList(i)
                    /\ Count(ents[i].log, "Running setup") = 1
                    /\ Count(ents[i].log, "Setup complete") = 0)
    /\ [][(Running /\ last'.act = "spawn") =>
             /\ arenas'[Cur.arena].entities = Append(arenas[Cur.arena].entities, Spawned)
             /\ IF Template # 0
                THEN /\ Len(stack') = Len(stack) + 1
                     /\ stack'[Len(stack')]
                            = [ent |-> Spawned, start |-> Template, off |-> Template,
                               setup |-> TRUE, runtime |-> RuntimeOffset]
                     /\ ents'[Spawned].scriptOffset = Template
                ELSE /\ Len(stack') = Len(stack)
                     /\ ents'[Spawned].scriptOffset = RuntimeOffset
                     /\ Count(ents'[Spawned].log, "Running setup") = 0]_vars
    /\ [][(Running /\ Top.setup /\ Len(stack') < Len(stack)) =>
             /\ ents'[Top.ent].scriptOffset = Top.runtime
             /\ Count(ents'[Top.ent].log, "Setup complete") = 1
             /\ ents'[Top.ent].log[Len(ents'[Top.ent].log)].msg = "Setup complete"]_vars

\* the setup script of a spawned entity ended on an unknown opcode, which set
\* the cursor to 0; the cursor is the offset the spawn opcode gave
C23_Witness ==
    /\ last.act = "return" /\ last.op = 0 /\ Len(stack) = 1
    /\ hist[last.ent].origin.ent # 0
    /\ ents[last.ent].log[Len(ents[last.ent].log)].msg = "Setup complete"
    /\ ents[last.ent].log[Len(ents[last.ent].log) - 1].msg = "unknown opcode!"
    /\ ents[last.ent].scriptOffset # 0
    /\ ents[last.ent].scriptOffset = u32(mem, Top.off - 4).val


\* C24: "set animation" leaves the Reader 5 bytes past the offset of its
\* opcode, after the opcode and the u32, wherever the animation block is and
\* whether it holds a name (its first u32 is 0) or not; the script goes on
\* from there
C24_SetAnimationRestoresCursor ==
    [][(Decodes(59) /\ pc' # "failed") =>
          /\ Len(stack') = Len(stack)
          /\ stack'[Len(stack')].off = Top.off + 5
          /\ stack'[Len(stack')].ent = Top.ent
          /\ last'.act = "continue"
          /\ LET block == u32(mem, Top.off + 1).val
                 line == ents'[Top.ent].log[Len(ents'[Top.ent].log)]
             IN  IF u32(mem, block).val = 0
                 THEN line.args = <<str(mem, block + 4, 8).val>>
                 ELSE line.args = <<<<block>>>>]_vars

\* "set animation" has read the name "walk" from a block that lies behind the
\* script, and the Reader is 5 bytes past the opcode
C24_Witness ==
    /\ Running /\ last.act = "continue" /\ last.op = 59
    /\ Top.off = last.at + 5
    /\ u32(mem, last.at + 1).val > Top.off
    /\ u32(mem, u32(mem, last.at + 1).val).val = 0
    /\ ents[last.ent].log[Len(ents[last.ent].log)].args = <<<<119, 97, 108, 107>>>>


\* a line that an instruction which ends a script pushed: "finished script" of
\* 0xFF, "end script" of 0x09, "unknown opcode!", and "destroyed" of 0x10
Ending(line) ==
    /\ line.at >= 0
    /\ line.op \in {255, 9} \/ line.msg \in {"unknown opcode!", "destroyed"}

\* the script of entity i has ended, its setup script apart: its log holds an
\* ending line that is not between the two lines of spawnEntity
Terminated(i) ==
    \E k \in 1 .. Len(ents[i].log) :
        /\ Ending(ents[i].log[k])
        /\ \/ Count(ents[i].log, "Running setup") = 0
           \/ \E j \in 1 .. k - 1 : ents[i].log[j].msg = "Setup complete"

\* C25: an entity whose script has ended is not run again: no call of
\* executeScript is under way for it
C25_TerminatedIsAbsorbing ==
    \A k \in 1 .. Len(stack) : ~stack[k].setup => ~Terminated(stack[k].ent)


\* the tick loop has just started the first call of executeScript that decodes
\* for an entity since spawnEntity ran its setup script
FirstRunAfterSetup ==
    /\ pc = "tick" /\ Len(stack) = 1 /\ last.act = "visit"
    /\ Cur.log[Len(Cur.log)].msg = "Setup complete"

\* C27: that call decodes at the cursor of the entity, which is the runtime
\* offset spawnEntity assigned, and not at an offset the setup script left
\* pending
C27_SetupDelayDoesNotLeak == FirstRunAfterSetup => Top.off = Cur.scriptOffset


\* C29: the 4 slots of the variables of the level, of every arena and of every
\* entity are 0 in every state, and a delay whose operand names a slot of one
\* of the three (tags 0, 1, 2) sets the delay counter to 0, stores the resume
\* offset and returns
C29_VariablesStayZero ==
    /\ [](/\ level.variables = <<0, 0, 0, 0>>
          /\ \A i \in 1 .. Len(ents) : ents[i].variables = <<0, 0, 0, 0>>
          /\ \A a \in DOMAIN arenas : arenas[a].arenaVariables = <<0, 0, 0, 0>>)
    /\ [][(Decodes(64) /\ Top.off + 3 <= Len(mem) /\ VarTag(Top.off + 1) \in {0, 1, 2}
              /\ pc' # "failed") =>
             /\ ents'[Top.ent].scriptDelay = 0
             /\ ents'[Top.ent].scriptOffsetAfterDelay = Top.off + 3
             /\ Len(stack') = Len(stack) - 1
             /\ last'.act = "return"]_vars

\* a delay on slot 3 of the arena's variables has returned with delay 0
C29_Witness ==
    /\ last.act = "return" /\ last.op = 64
    /\ VarTag(last.at + 1) = 1 /\ VarIndex(last.at + 1) = 3
    /\ ents[last.ent].scriptDelay = 0
    /\ ents[last.ent].scriptOffsetAfterDelay = last.at + 3
    /\ ents[last.ent].log[Len(ents[last.ent].log)].msg = "delay"


(***************************************************************************)
(* Further properties of cmi.ts's go(), checked under SpecSchema.          *)
(***************************************************************************)
\* the running call passes its guards and decodes a byte next
DecodesByte ==
    /\ InCall
    /\ stack[1].loopcount # 0
    /\ Len(ents[stack[1].ent].callstack) < StackLimit
    /\ u8(mem, Cursor).ok

\* the schema of the byte the running call decodes next
SchemaAtCursor == opcodes[mem[Cursor + 1] + 1]

\* C12: an opcode whose schema is a Todo ends the call of run_bytecode without
\* an error and with only the opcode byte consumed, while an opcode without a
\* schema makes go() throw: the two outcomes differ
C12_TodoEndsQuietly ==
    /\ [][(DecodesByte /\ SchemaAtCursor.t = "todo") =>
             /\ pc' = "run"
             /\ stack' = <<>>
             /\ ents'[stack[1].ent].callstack = <<>>
             /\ last'.act = "todo"
             /\ last'.end = Cursor + 1]_vars
    /\ [][(DecodesByte /\ mem[Cursor + 1] # 255 /\ SchemaAtCursor.t = "null") =>
             /\ pc' = "failed"
             /\ last'.act = "assert"]_vars

\* the script {01 02} has ended on opcode 0x02, a Todo, and go() goes on
C12_Witness ==
    /\ pc = "run" /\ stack = <<>>
    /\ last.act = "todo" /\ last.op = 2
    /\ mem[last.at] = 1 /\ mem[last.at + 1] = 2
    /\ last.end = last.at + 1
    /\ ents[last.ent].callstack = <<>>

\* the bytes one item of a schema takes at offset o: N for a number, the length
\* byte and the string for 'p', the tag byte and what it selects for the others
ItemWidth(m, o, code) ==
    IF code >= 0 THEN code
    ELSE IF code = CodeP THEN 1 + m[o + 1]
    ELSE IF code = CodeC THEN (IF m[o + 1] \in {7, 8} THEN 1 + 8 ELSE 1 + 4)
    ELSE IF code = CodeB
    THEN (IF m[o + 1] = 254 THEN 1 + 8 ELSE IF m[o + 1] \in {252, 12} THEN 1 + 4 ELSE 1)
    ELSE (IF m[o + 1] = 3 THEN 1 + 4 ELSE 1 + 1)

RECURSIVE SchemaWidth(_, _, _)
SchemaWidth(m, o, codes) ==
    IF codes = <<>> THEN 0
    ELSE ItemWidth(m, o, Head(codes))
             + SchemaWidth(m, o + ItemWidth(m, o, Head(codes)), Tail(codes))

\* the opcodes whose schema is a code or an array of codes
Skipping == {op \in 0 .. 255 : opcodes[op + 1].t \in {"one", "array"}}

\* C14: decoding an instruction whose schema is a code or an array of codes
\* moves the Reader by the opcode byte plus the widths of the schema's items;
\* so does every schema of the table applied to the bytes after the cursor
C14_SchemaWidths ==
    /\ [][(DecodesByte /\ mem[Cursor + 1] \in Skipping /\ Turn.kind = "continue") =>
             /\ ents'[stack[1].ent].callstack
                    = <<Cursor + 1 + SchemaWidth(mem, Cursor + 1, SchemaAtCursor.codes)>>
             /\ last'.end = Cursor + 1 + SchemaWidth(mem, Cursor + 1, SchemaAtCursor.codes)]_vars
    /\ [](DecodesByte =>
             \A op \in Skipping :
                 ApplyCodes(mem, Cursor + 1, opcodes[op + 1].codes).ok =>
                     ApplyCodes(mem, Cursor + 1, opcodes[op + 1].codes).off
                         = Cursor + 1 + SchemaWidth(mem, Cursor + 1, opcodes[op + 1].codes))

\* opcode 0x0A {pstr "a", 1 byte, tag 0x0C and 4 bytes} has been skipped
C14_Witness ==
    /\ pc = "run" /\ stack # <<>>
    /\ last.act = "continue" /\ last.op = 10
    /\ mem[last.at + 5] = 12
    /\ last.end = last.at + 1 + 2 + 1 + 5
    /\ Cursor = last.end

CalledBefore(i) == \E k \in 1 .. Len(hist) : hist[k].ent = i

\* C28: the callstack of an entity holds one Reader at most; between two calls
\* of the driver every entity that was called has an empty callstack; and a
\* call on an entity that was called before returns at once, decoding nothing
C28_OneCursorThenEmpty ==
    /\ [](\A i \in 1 .. Len(ents) : Len(ents[i].callstack) <= 1)
    /\ []((pc = "run" /\ stack = <<>>) =>
             \A i \in 1 .. Len(ents) : CalledBefore(i) => ents[i].callstack = <<>>)
    /\ [][(pc = "run" /\ stack = <<>> /\ last'.act = "call" /\ CalledBefore(last'.ent)) =>
             stack' = <<>> /\ ents' = ents]_vars

\* the fourth pass has called an entity whose script the first pass ran
C28_Witness ==
    /\ pc = "run" /\ stack = <<>> /\ last.act = "call"
    /\ hist[Len(hist)].pass = 4
    /\ hist[Len(hist)].ent = last.ent
    /\ \E k \in 1 .. Len(hist) - 1 : hist[k].ent = last.ent /\ hist[k].pass = 1
    /\ CmiHeader(mem).ents[last.ent].callstack # <<>>
    /\ ents[last.ent].callstack = <<>>


(***************************************************************************)
(* The handlers of part_000 against the table of cmi.ts, checked under     *)
(* Spec.                                                                   *)
(***************************************************************************)
\* the opcodes with a case in executeOpcode whose entry in opcodes is a code
\* or an array of codes
InBoth == {1, 9, 11, 16, 64, 73, 116, 149, 151, 152, 153, 161, 230}

\* where run_bytecode would leave the Reader after the instruction at the
\* cursor of the running script
BySchema == ApplyCodes(mem, Top.off + 1, Codes(<<>>, opcodes[Opcode.val + 1]))

\* C26: a handler of executeOpcode that does not throw leaves the Reader where
\* the codes of the opcode's entry in the table of cmi.ts leave it on the same
\* bytes
C26_HandlersMatchSchema ==
    [][(Running /\ Opcode.ok /\ Opcode.val \in InBoth /\ pc' # "failed") =>
          /\ BySchema.ok
          /\ last'.end = BySchema.off]_vars

====
